---------------------------- MODULE Spec2Model ----------------------------
(***************************************************************************)
(* A model of github.com/t9t/gomft: the fragment Reader (fragment/reader.go)*)
(* as a state machine over a seekable byte source, the decoders of         *)
(* mft/mft.go as operators over byte sequences, and ParseRecord over a     *)
(* heap of byte buffers, so that a slice is a reference to a buffer and    *)
(* not a value.                                                            *)
(*                                                                         *)
(* Go slices are 0-based and TLA+ sequences 1-based: fragments[idx] of the *)
(* code is fragments[idx + 1] here, and the source byte at position q is   *)
(* src[q + 1].                                                             *)
(***************************************************************************)
EXTENDS Integers, Sequences, FiniteSets, TLC

VARIABLES
    src,        \* the bytes of the io.ReadSeeker behind the Reader
    srcMode,    \* "ok": every Seek succeeds; "flaky": a Seek may fail
    srcPos,     \* the source's current position
    fragments,  \* Reader.fragments
    idx,        \* Reader.idx
    remaining,  \* Reader.remaining
    rlen,       \* len(p) of the last Read call (-1 before the first call)
    rn,         \* n returned by the last Read call
    rerr,       \* err returned by the last Read call
    out,        \* every byte returned so far, in order (history)
    fragOut,    \* fragOut[i]: bytes returned while idx = i - 1 (history)
    seekFailed, \* some Read failed on its Seek (history)
    inBytes,    \* the byte slice handed to a decoder of package mft
    inBpc,      \* bytesPerCluster handed to DataRunsToFragments
    call,       \* the decoder that ran last ("none" before any)
    dErr,       \* the error the decoder returned ("nil": none)
    dRuns,      \* the []DataRun ParseDataRuns returned
    dFrags,     \* the []fragment.Fragment DataRunsToFragments returned
    dRef,       \* the FileReference ParseFileReference returned
    callerBuf,  \* the buffer the caller hands to ParseRecord, as it is now
    callerBuf0, \* that buffer before the first call (history)
    privateBuf, \* the buffer the last ParseRecord worked on, as it left it
    pCalls,     \* the number of ParseRecord calls made on callerBuf
    pOut,       \* what the last ParseRecord call returned
    pFirst,     \* what the first ParseRecord call returned (history)
    fixBuf,     \* the buffer applyFixUp is applied to, as it is now
    fixBuf0,    \* that buffer before the first application (history)
    fixOffset,  \* the update sequence offset handed to applyFixUp
    fixLength,  \* the update sequence size (in pairs) handed to applyFixUp
    fixHist,    \* per application: the error and the buffer it left (history)
    inLen,      \* len(b) of the slice handed to a decoder; inBytes holds
                \* the bytes of its backing array up to cap(b)
    dOut,       \* what the decoder returned besides its error
    pc,         \* mftdump: the statement of main that runs next
    nArgs,      \* mftdump: len(flag.Args())
    overwriteOutputIfExists, \* mftdump: the -f flag
    volume,     \* mftdump: the volume, [bootSector, mft]: the bytes at 0 and
                \* the bytes from the $MFT's position to the volume's end
    outPath,    \* mftdump: the output path on disk: "absent", "old" (a file
                \* that was there before), "created" or "truncated"
    inFile,     \* mftdump: the handle in: "none", "open" or "closed"
    outFile,    \* mftdump: the handle out: "none", "open" or "closed"
    deferred,   \* mftdump: the calls main has deferred, latest last
    bootSectorData, \* mftdump: main's local of that name
    bootSector, \* mftdump: main's local of that name
    mftData,    \* mftdump: main's local of that name
    record,     \* mftdump: main's local of that name
    dataAttributes, \* mftdump: main's local of that name
    dataRuns,   \* mftdump: main's local of that name
    dumpFragments, \* mftdump: main's local fragments
    written,    \* mftdump: the bytes written to out so far, an int64
    exitCode,   \* mftdump: the exit status, -1 while main runs
    walkCall,   \* entry walk: the decoder called
    walkIn,     \* entry walk: the bytes it was called with
    walkPc,     \* entry walk: "call", "loop", "returned" or "panic"
    walkB,      \* entry walk: b, what is left of the input
    walkEntries, \* entry walk: entries
    walkErr,    \* entry walk: the error returned, "nil" for none
    moves       \* shared source: the seeks another party has made on src

readerVars == <<src, srcMode, srcPos, fragments, idx, remaining, rlen, rn, rerr,
                out, fragOut, seekFailed>>

decodeVars == <<inBytes, inBpc, call, dErr, dRuns, dFrags, dRef>>

recordVars == <<callerBuf, callerBuf0, privateBuf, pCalls, pOut, pFirst>>

fixVars == <<fixBuf, fixBuf0, fixOffset, fixLength, fixHist>>

outVars == <<inLen, dOut>>

dumpVars == <<pc, nArgs, overwriteOutputIfExists, volume, outPath, inFile,
              outFile, deferred, bootSectorData, bootSector, mftData, record,
              dataAttributes, dataRuns, dumpFragments, written, exitCode>>

walkVars == <<walkCall, walkIn, walkPc, walkB, walkEntries, walkErr>>

shareVars == <<moves>>

vars == <<readerVars, decodeVars, recordVars, fixVars, outVars, dumpVars, walkVars, shareVars>>

---------------------------------------------------------------------------
(* Bounds of the Reader model *)

SrcLen == 3
MaxFrags == 2
MaxFragLen == 2
MaxBuf == 2

Min(a, b) == IF a < b THEN a ELSE b
Max(a, b) == IF a > b THEN a ELSE b

\* The source content: pairwise distinct bytes, so a byte names its position.
SourceBytes == [i \in 1..SrcLen |-> 160 + i]

\* fragment.Fragment
Fragment == [Offset : 0..SrcLen, Length : 0..MaxFragLen]

RECURSIVE SeqsUpTo(_, _)
SeqsUpTo(S, k) ==
    IF k = 0 THEN {<<>>}
    ELSE LET shorter == SeqsUpTo(S, k - 1)
         IN  shorter \cup {Append(s, x) : s \in {t \in shorter : Len(t) = k - 1}, x \in S}

\* The Reader's variables when no Reader is built.
ReaderIdle ==
    /\ src = <<>>
    /\ srcMode = "ok"
    /\ srcPos = 0
    /\ fragments = <<>>
    /\ idx = -1
    /\ remaining = 0
    /\ rlen = -1
    /\ rn = 0
    /\ rerr = "nil"
    /\ out = <<>>
    /\ fragOut = <<>>
    /\ seekFailed = FALSE

\* The decoders' variables before any decoder has run.
DecodeIdle ==
    /\ inBytes = <<>>
    /\ inBpc = 1
    /\ call = "none"
    /\ dErr = "nil"
    /\ dRuns = <<>>
    /\ dFrags = <<>>
    /\ dRef = <<>>

\* The variables of ParseRecord before any buffer is parsed.
RecordIdle ==
    /\ callerBuf = <<>>
    /\ callerBuf0 = <<>>
    /\ privateBuf = <<>>
    /\ pCalls = 0
    /\ pOut = <<>>
    /\ pFirst = <<>>

\* The variables of applyFixUp on its own before any buffer is given.
FixUpIdle ==
    /\ fixBuf = <<>>
    /\ fixBuf0 = <<>>
    /\ fixOffset = 0
    /\ fixLength = 0
    /\ fixHist = <<>>

\* The slice length and the result of a decoder before any has run.
OutIdle ==
    /\ inLen = 0
    /\ dOut = <<>>

\* The variables of the entry walks before a decoder is called.
WalkIdle ==
    /\ walkCall = "none"
    /\ walkIn = <<>>
    /\ walkPc = "idle"
    /\ walkB = <<>>
    /\ walkEntries = <<>>
    /\ walkErr = "nil"

\* No other party uses the source.
ShareIdle == moves = 0

\* The variables of mftdump before it is started.
DumpIdle ==
    /\ pc = "idle"
    /\ nArgs = 0
    /\ overwriteOutputIfExists = FALSE
    /\ volume = <<>>
    /\ outPath = "absent"
    /\ inFile = "none"
    /\ outFile = "none"
    /\ deferred = <<>>
    /\ bootSectorData = <<>>
    /\ bootSector = <<>>
    /\ mftData = <<>>
    /\ record = <<>>
    /\ dataAttributes = <<>>
    /\ dataRuns = <<>>
    /\ dumpFragments = <<>>
    /\ written = <<>>
    /\ exitCode = -1

---------------------------------------------------------------------------
(* fragment/reader.go *)

\* r.src.Seek(offset, 0): the outcomes the io.ReadSeeker may produce. A sound
\* source lands on the offset. A flaky one may also return an error (the
\* position stays where it was) or land somewhere else, at the start or at
\* the end of the source, and report that position.
Seek(mode, pos, offset) ==
    {[err |-> FALSE, seeked |-> offset, pos |-> offset]}
    \cup (IF mode = "flaky"
          THEN {[err |-> TRUE, seeked |-> 0, pos |-> pos]}
               \cup {[err |-> FALSE, seeked |-> q, pos |-> q] :
                        q \in {0, Len(src)} \ {offset}}
          ELSE {})

\* A ReadFull that reports io.EOF whenever the read reaches the end of the
\* source, also when it filled the target.
ReadFullEOFAtEnd(s, pos, tlen) ==
    LET avail == Max(0, Len(s) - pos)
        n     == Min(tlen, avail)
    IN  [n   |-> n,
         err |-> IF n = tlen /\ (tlen = 0 \/ pos + n < Len(s)) THEN "nil"
                 ELSE IF n = tlen \/ n = 0 THEN "EOF" ELSE "ErrUnexpectedEOF"]

\* io.ReadFull(r.src, target) on a source holding s, positioned at pos, with
\* len(target) = tlen: it fills target or reports why it could not.
ReadFull(s, pos, tlen) ==
    LET avail == Max(0, Len(s) - pos)
        n     == Min(tlen, avail)
    IN  [n   |-> n,
         err |-> IF n = tlen THEN "nil"
                 ELSE IF n = 0 THEN "EOF" ELSE "ErrUnexpectedEOF"]

\* A Read that never clamps its buffer to what remains of the fragment.
TargetLenNoClamp(plen, rem) == plen

\* len(target): p, or p[:r.remaining] when p is longer than what remains.
TargetLen(plen, rem) == IF plen > rem THEN rem ELSE plen

\* A NewReader that starts on fragment 0 instead of before it.
NewReaderAtZero(frags) == [fragments |-> frags, idx |-> 0, remaining |-> 0]

\* NewReader: the Reader's fields after construction.
NewReader(frags) == [fragments |-> frags, idx |-> -1, remaining |-> 0]

Return(plen, n, e) ==
    /\ rlen' = plen
    /\ rn' = n
    /\ rerr' = e

\* The tail of Read: clamp, io.ReadFull, r.remaining -= n. i is r.idx, rem is
\* r.remaining and pos the source position at this point of the call.
ReadTail(plen, i, rem, pos) ==
    LET r == ReadFull(src, pos, TargetLen(plen, rem))
    IN  /\ remaining' = rem - r.n
        /\ srcPos' = pos + r.n
        /\ out' = out \o SubSeq(src, pos + 1, pos + r.n)
        /\ fragOut' = [fragOut EXCEPT ![i + 1] = @ + r.n]
        /\ Return(plen, r.n, r.err)

\* A Read that has no case for an empty buffer.
EmptyBufferNever(plen) == FALSE

\* len(p) == 0
EmptyBuffer(plen) == plen = 0

\* A Read that goes to the next fragment whatever is left of this one.
DepletedAlways(rem) == TRUE

\* r.remaining == 0
Depleted(rem) == rem = 0

\* Reader.Read(p) with len(p) = plen.
Read(plen) ==
    /\ UNCHANGED <<src, srcMode, fragments>>
    /\ UNCHANGED decodeVars
    /\ UNCHANGED recordVars
    /\ UNCHANGED fixVars
    /\ UNCHANGED outVars
    /\ UNCHANGED dumpVars
    /\ UNCHANGED walkVars
    /\ UNCHANGED shareVars
    /\ IF idx >= Len(fragments)
       THEN /\ Return(plen, 0, "EOF")
            /\ UNCHANGED <<srcPos, idx, remaining, out, fragOut, seekFailed>>
       ELSE IF EmptyBuffer(plen)
       THEN /\ Return(plen, 0, "nil")
            /\ UNCHANGED <<srcPos, idx, remaining, out, fragOut, seekFailed>>
       ELSE IF Depleted(remaining)
       THEN /\ idx' = idx + 1
            /\ IF idx + 1 >= Len(fragments)
               THEN /\ Return(plen, 0, "EOF")
                    /\ UNCHANGED <<srcPos, remaining, out, fragOut, seekFailed>>
               ELSE LET next == fragments[idx + 2]
                    IN  \E s \in Seek(srcMode, srcPos, next.Offset) :
                          IF s.err
                          THEN /\ remaining' = next.Length
                               /\ srcPos' = s.pos
                               /\ seekFailed' = TRUE
                               /\ Return(plen, 0, "SeekError")
                               /\ UNCHANGED <<out, fragOut>>
                          ELSE IF s.seeked # next.Offset
                          THEN /\ remaining' = next.Length
                               /\ srcPos' = s.pos
                               /\ seekFailed' = TRUE
                               /\ Return(plen, 0, "SeekMismatch")
                               /\ UNCHANGED <<out, fragOut>>
                          ELSE /\ ReadTail(plen, idx + 1, next.Length, s.pos)
                               /\ UNCHANGED seekFailed
       ELSE /\ ReadTail(plen, idx, remaining, srcPos)
            /\ UNCHANGED <<idx, seekFailed>>

InitReader ==
    /\ src = SourceBytes
    /\ srcMode \in {"ok", "flaky"}
    /\ srcPos \in {0, SrcLen}
    /\ \E frags \in SeqsUpTo(Fragment, MaxFrags) :
          /\ fragments = NewReader(frags).fragments
          /\ idx = NewReader(frags).idx
          /\ remaining = NewReader(frags).remaining
          /\ fragOut = [i \in 1..Len(frags) |-> 0]
    /\ rlen = -1
    /\ rn = 0
    /\ rerr = "nil"
    /\ out = <<>>
    /\ seekFailed = FALSE
    /\ DecodeIdle
    /\ RecordIdle
    /\ FixUpIdle
    /\ OutIdle
    /\ DumpIdle
    /\ WalkIdle
    /\ ShareIdle

NextReader == \E plen \in 0..MaxBuf : Read(plen)

SpecReader == InitReader /\ [][NextReader]_vars

\* The source shared with another party

MaxMoves == 1
MaxSharedFrags == 1

\* A Seek by another holder of src, a second Reader for one, between two
\* Reads of one fragment by this Reader: the source position is moved.
Move ==
    /\ moves < MaxMoves
    /\ remaining > 0
    /\ \E pos \in 0..SrcLen :
          /\ pos # srcPos
          /\ srcPos' = pos
    /\ moves' = moves + 1
    /\ UNCHANGED <<src, srcMode, fragments, idx, remaining, rlen, rn, rerr,
                   out, fragOut, seekFailed>>
    /\ UNCHANGED decodeVars
    /\ UNCHANGED recordVars
    /\ UNCHANGED fixVars
    /\ UNCHANGED outVars
    /\ UNCHANGED dumpVars
    /\ UNCHANGED walkVars

\* A sound source at its start and a Reader over at most MaxSharedFrags
\* fragments
InitShared ==
    /\ InitReader
    /\ srcMode = "ok"
    /\ srcPos = 0
    /\ Len(fragments) <= MaxSharedFrags

NextShared ==
    \/ \E plen \in 0..MaxBuf : Read(plen)
    \/ Move

SpecShared == InitShared /\ [][NextShared]_vars

---------------------------------------------------------------------------
(* 64-bit integers *)

(***************************************************************************)
(* TLC's integers are 32 bits wide, so a Go uint64 or int64 is modelled by *)
(* its 8 bytes, least significant first (an int64 in two's complement):    *)
(* what binary.LittleEndian.Uint64 reads. int64(x) and uint64(x) keep the  *)
(* bytes. The arithmetic below wraps at the width of its operands, as Go's *)
(* does.                                                                   *)
(***************************************************************************)

Fill(n, v) == [i \in 1..n |-> v]

\* The n bytes of the integer v (two's complement), for |v| < 2^31.
RECURSIVE IntToWord(_, _)
IntToWord(v, n) ==
    IF n = 0 THEN <<>> ELSE <<v % 256>> \o IntToWord(v \div 256, n - 1)

RECURSIVE AddCarry(_, _, _)
AddCarry(a, b, c) ==
    IF a = <<>> THEN <<>>
    ELSE LET sum == Head(a) + Head(b) + c
         IN  <<sum % 256>> \o AddCarry(Tail(a), Tail(b), sum \div 256)

\* a + b on words of one width, wrapping.
AddW(a, b) == AddCarry(a, b, 0)

RECURSIVE MulByte(_, _, _)
MulByte(a, k, c) ==
    IF a = <<>> THEN <<>>
    ELSE LET p == Head(a) * k + c
         IN  <<p % 256>> \o MulByte(Tail(a), k, p \div 256)

\* a * b on words of one width, wrapping.
RECURSIVE MulW(_, _)
MulW(a, b) ==
    IF b = <<>> THEN Fill(Len(a), 0)
    ELSE AddW(MulByte(a, Head(b), 0),
              <<0>> \o SubSeq(MulW(a, Tail(b)), 1, Len(a) - 1))

\* binary.LittleEndian.Uint64(b): the first 8 bytes of b.
Uint64(b) == SubSeq(b, 1, 8)

\* binary.LittleEndian.Uint16(b)
Uint16(b) == b[1] + 256 * b[2]

---------------------------------------------------------------------------
(* mft/mft.go: padTo, ParseFileReference, ParseDataRuns, DataRunsToFragments *)

\* The widest field a data-run header can announce: a nibble.
MaxFieldLen == 15

\* A padTo that pads with zero bytes whatever the last byte is.
padToZero(data, length) ==
    IF Len(data) >= length THEN data
    ELSE data \o Fill(length - Len(data), 0)

\* padTo(data, length)
padTo(data, length) ==
    IF Len(data) > length THEN data
    ELSE IF Len(data) = length THEN data
    ELSE IF Len(data) = 0 THEN Fill(length, 0)
    ELSE data \o Fill(length - Len(data),
                      IF data[Len(data)] >= 128 THEN 255 ELSE 0)

\* ParseFileReference(b)
ParseFileReference(b) ==
    IF Len(b) # 8
    THEN [err |-> "BadLength", ref |-> <<>>]
    ELSE [err |-> "nil",
          ref |-> [RecordNumber   |-> Uint64(padTo(SubSeq(b, 1, 6), 8)),
                   SequenceNumber |-> Uint16(SubSeq(b, 7, 8))]]

\* A ReadFrom that starts one byte early.
ReadFromOneEarly(data, offset) == SubSeq(data, offset, Len(data))

\* BinReader.ReadFrom(offset): data[offset:], for an offset within data.
ReadFrom(data, offset) == SubSeq(data, offset + 1, Len(data))

\* The loop of ParseDataRuns over what is left of the input, b, with the
\* runs decoded so far.
RECURSIVE ParseDataRunsFrom(_, _)
ParseDataRunsFrom(b, runs) ==
    IF Len(b) = 0 THEN [runs |-> runs, err |-> "nil"]
    ELSE LET header == b[1] IN
    IF header = 0 THEN [runs |-> runs, err |-> "nil"]
    ELSE LET lengthLength        == header % 16
             offsetLength        == header \div 16
             dataRunDataLength   == offsetLength + lengthLength
             headerAndDataLength == dataRunDataLength + 1
         IN  IF Len(b) < headerAndDataLength
             THEN [runs |-> <<>>, err |-> "MalformedDataRun"]
             ELSE LET dataRunData == SubSeq(b, 2, 1 + dataRunDataLength)
                      lengthBytes == SubSeq(dataRunData, 1, lengthLength)
                      dataLength  == Uint64(padTo(lengthBytes, 8))
                      offsetBytes == SubSeq(dataRunData, lengthLength + 1,
                                            lengthLength + offsetLength)
                      dataOffset  == Uint64(padTo(offsetBytes, 8))
                  IN  ParseDataRunsFrom(
                          ReadFrom(b, headerAndDataLength),
                          Append(runs, [OffsetCluster    |-> dataOffset,
                                        LengthInClusters |-> dataLength]))

\* ParseDataRuns(b)
ParseDataRuns(b) == ParseDataRunsFrom(b, <<>>)

\* A fragment whose offset is the run's own OffsetCluster, not the running
\* sum: the delta taken for an absolute cluster.
FragmentOfAbsolute(run, previousOffsetCluster, bpc) ==
    [Offset |-> MulW(run.OffsetCluster, bpc),
     Length |-> MulW(run.LengthInClusters, bpc)]

\* The fragment.Fragment built in the loop of DataRunsToFragments.
FragmentOf(run, previousOffsetCluster, bpc) ==
    [Offset |-> MulW(AddW(previousOffsetCluster, run.OffsetCluster), bpc),
     Length |-> MulW(run.LengthInClusters, bpc)]

\* The loop of DataRunsToFragments; bpc is int64(bytesPerCluster).
RECURSIVE FragmentsFrom(_, _, _)
FragmentsFrom(runs, previousOffsetCluster, bpc) ==
    IF runs = <<>> THEN <<>>
    ELSE <<FragmentOf(Head(runs), previousOffsetCluster, bpc)>>
         \o FragmentsFrom(Tail(runs),
                          AddW(previousOffsetCluster, Head(runs).OffsetCluster),
                          bpc)

\* DataRunsToFragments(runs, bytesPerCluster)
DataRunsToFragments(runs, bytesPerCluster) ==
    FragmentsFrom(runs, Fill(8, 0), IntToWord(bytesPerCluster, 8))

---------------------------------------------------------------------------
(* The inputs the decoders are run on *)

MaxRuns == 3

\* A field's bytes below its most significant byte, and that byte.
FieldPatterns ==
    {<<200, 0>>, <<200, 1>>, <<200, 127>>, <<200, 128>>, <<0, 128>>,
     <<255, 255>>, <<0, 0>>}

FieldBytes(k, pat) == [i \in 1..k |-> IF i = k THEN pat[2] ELSE pat[1]]

\* One run of every pair of field widths, then the end of the slice.
SingleRunInputs ==
    {<<16 * ol + ll>> \o FieldBytes(ll, lp) \o FieldBytes(ol, op) :
        ll \in 0..MaxFieldLen, ol \in 0..MaxFieldLen,
        lp \in FieldPatterns, op \in FieldPatterns}

\* A run cut short: its last byte is missing.
TruncatedInputs ==
    {SubSeq(b, 1, Len(b) - 1) : b \in {x \in SingleRunInputs : Len(x) \in 2..4}}

DataRun(offset, length) ==
    [OffsetCluster |-> offset, LengthInClusters |-> length]

\* The runs of TestDataRunsToFragments, then runs at the edge of 64 bits:
\* offset 2^62, length 2^63, and the empty run.
RunChoices ==
    {DataRun(IntToWord(5521, 8), IntToWord(1337, 8)),
     DataRun(IntToWord(-4408, 8), IntToWord(42, 8)),
     DataRun(IntToWord(7708, 8), IntToWord(13, 8)),
     DataRun(<<0, 0, 0, 0, 0, 0, 0, 64>>, IntToWord(1, 8)),
     DataRun(IntToWord(-1, 8), <<0, 0, 0, 0, 0, 0, 0, 128>>),
     DataRun(IntToWord(0, 8), IntToWord(0, 8))}

\* The run lists handed to DataRunsToFragments directly.
RunLists == SeqsUpTo(RunChoices, MaxRuns)

\* The input of TestParseDataRuns.
TestDataRunsInput ==
    <<51, 32, 200, 0, 0, 0, 12, 66, 224, 97, 164, 181, 69, 7, 51, 13, 200,
      0, 111, 237, 177, 66, 54, 93, 179, 216, 156, 251, 50, 128, 43, 58, 4,
      91, 67, 61, 131, 0, 84, 2, 147, 1, 0, 0, 0, 0, 0, 0>>

\* 8-byte file references, and slices that are not 8 bytes long.
FileReferenceInputs ==
    LET refs == {low \o <<top>> \o seq :
                    low \in {<<26, 179, 6, 0, 0>>, Fill(5, 255), Fill(5, 0)},
                    top \in {0, 1, 127, 128, 255},
                    seq \in {<<45, 0>>, <<255, 255>>, <<0, 128>>}}
    IN  refs \cup {SubSeq(b, 1, 7) : b \in refs} \cup {b \o <<0>> : b \in refs}

DecodeInputs ==
    SingleRunInputs \cup TruncatedInputs
    \cup {<<>>, TestDataRunsInput} \cup FileReferenceInputs

BpcChoices == {1, 512, 4096}

---------------------------------------------------------------------------
(* The decoders as steps: ParseDataRuns, then DataRunsToFragments on its   *)
(* runs as in cmd/mftdump/main.go, or on a run list a caller built (call = *)
(* "given"); ParseFileReference on its own.                                *)

DoParseDataRuns ==
    /\ call = "none"
    /\ call' = "ParseDataRuns"
    /\ dRuns' = ParseDataRuns(inBytes).runs
    /\ dErr' = ParseDataRuns(inBytes).err
    /\ UNCHANGED <<inBytes, inBpc, dFrags, dRef>>
    /\ UNCHANGED readerVars
    /\ UNCHANGED recordVars
    /\ UNCHANGED fixVars
    /\ UNCHANGED outVars
    /\ UNCHANGED dumpVars
    /\ UNCHANGED walkVars
    /\ UNCHANGED shareVars

DoDataRunsToFragments ==
    /\ call \in {"ParseDataRuns", "given"}
    /\ dErr = "nil"
    /\ call' = "DataRunsToFragments"
    /\ \E bytesPerCluster \in BpcChoices :
          /\ inBpc' = bytesPerCluster
          /\ dFrags' = DataRunsToFragments(dRuns, bytesPerCluster)
    /\ UNCHANGED <<inBytes, dErr, dRuns, dRef>>
    /\ UNCHANGED readerVars
    /\ UNCHANGED recordVars
    /\ UNCHANGED fixVars
    /\ UNCHANGED outVars
    /\ UNCHANGED dumpVars
    /\ UNCHANGED walkVars
    /\ UNCHANGED shareVars

DoParseFileReference ==
    /\ call = "none"
    /\ call' = "ParseFileReference"
    /\ dRef' = ParseFileReference(inBytes).ref
    /\ dErr' = ParseFileReference(inBytes).err
    /\ UNCHANGED <<inBytes, inBpc, dRuns, dFrags>>
    /\ UNCHANGED readerVars
    /\ UNCHANGED recordVars
    /\ UNCHANGED fixVars
    /\ UNCHANGED outVars
    /\ UNCHANGED dumpVars
    /\ UNCHANGED walkVars
    /\ UNCHANGED shareVars

InitDecode ==
    /\ inBytes \in DecodeInputs
    /\ inBpc = 1
    /\ call = "none"
    /\ dErr = "nil"
    /\ dRuns = <<>>
    /\ dFrags = <<>>
    /\ dRef = <<>>
    /\ ReaderIdle
    /\ RecordIdle
    /\ FixUpIdle
    /\ OutIdle
    /\ DumpIdle
    /\ WalkIdle
    /\ ShareIdle

NextDecode ==
    \/ DoParseDataRuns
    \/ DoDataRunsToFragments
    \/ DoParseFileReference

SpecDecode == InitDecode /\ [][NextDecode]_vars

\* DataRunsToFragments on its own, over run lists of any content.
InitFragments ==
    /\ inBytes = <<>>
    /\ inBpc = 1
    /\ call = "given"
    /\ dErr = "nil"
    /\ dRuns \in RunLists
    /\ dFrags = <<>>
    /\ dRef = <<>>
    /\ ReaderIdle
    /\ RecordIdle
    /\ FixUpIdle
    /\ OutIdle
    /\ DumpIdle
    /\ WalkIdle
    /\ ShareIdle

NextFragments == DoDataRunsToFragments

SpecFragments == InitFragments /\ [][NextFragments]_vars

---------------------------------------------------------------------------
(* binutil (unnamed/part_001), utf16/decode.go and mft/mft.go: ParseRecord, *)
(* applyFixUp, ParseAttributes, ParseAttribute                              *)

(***************************************************************************)
(* A []byte is a reference to a buffer: heap is the sequence of the        *)
(* buffers allocated so far and a reference is an index into it. A slice   *)
(* expression s[low:high] faults (a run-time panic, err = "panic" below)   *)
(* unless 0 <= low <= high <= cap(s). The host's int is 64 bits wide.      *)
(***************************************************************************)

InRange(low, high, capacity) == 0 <= low /\ low <= high /\ high <= capacity

\* BinReader.Read(offset, length): data[offset : offset+length], 0-based.
Slice(data, offset, length) == SubSeq(data, offset + 1, offset + length)

\* BinReader.Uint32(offset) keeps its 4 bytes; IntOf is int(u) for a uint32
\* u, exact below 2^30 and 2^30 from there on: it is only ever compared
\* with, or added to, numbers below 2^17.
Uint32(b) == SubSeq(b, 1, 4)

IntOf(w) ==
    IF w[4] >= 64 THEN 2^30
    ELSE w[1] + 256 * w[2] + 65536 * w[3] + 16777216 * w[4]

\* A Duplicate that returns its argument: the result shares the caller's
\* buffer.
DuplicateAlias(heap, in) == [heap |-> heap, ref |-> in]

\* binutil.Duplicate(in): a new buffer with the bytes of in.
Duplicate(heap, in) == [heap |-> Append(heap, heap[in]), ref |-> Len(heap) + 1]

\* unicode/utf16.Decode: a surrogate pair is one code point, a lone
\* surrogate is U+FFFD.
RECURSIVE Decode(_)
Decode(shorts) ==
    IF shorts = <<>> THEN <<>>
    ELSE LET r == Head(shorts) IN
         IF /\ r >= 55296 /\ r < 56320 /\ Len(shorts) >= 2
            /\ shorts[2] >= 56320 /\ shorts[2] < 57344
         THEN <<65536 + (r - 55296) * 1024 + (shorts[2] - 56320)>>
              \o Decode(Tail(Tail(shorts)))
         ELSE <<IF r >= 55296 /\ r < 57344 THEN 65533 ELSE r>>
              \o Decode(Tail(shorts))

\* utf16.DecodeString(b, binary.LittleEndian): the code points of the
\* string; the last byte of an odd-length b is left out.
DecodeString(b) ==
    Decode([i \in 1..(Len(b) \div 2) |-> Uint16(Slice(b, (i - 1) * 2, 2))])

fileSignature == <<70, 73, 76, 69>>

\* AttributeTypeTerminator, as the 4 bytes Uint32 reads
AttributeTypeTerminator == <<255, 255, 255, 255>>

\* A copy that copies nothing: the trailer keeps the update sequence number.
PatchNothing(data, offset, pair) == data

\* copy(b[offset:offset+2], pair)
Patch(data, offset, pair) ==
    [k \in 1..Len(data) |->
        IF k = offset + 1 THEN pair[1]
        ELSE IF k = offset + 2 THEN pair[2]
        ELSE data[k]]

\* The second loop of applyFixUp from sector i on. updateSequenceArray is a
\* slice of the buffer being patched, at arrayOffset: each pair is read from
\* the buffer as the earlier iterations left it.
RECURSIVE PatchFrom(_, _, _, _, _)
PatchFrom(data, i, sectorCount, sectorSize, arrayOffset) ==
    IF i >= sectorCount THEN data
    ELSE LET offset == sectorSize * (i + 1) - 2
             num    == i * 2
         IN  PatchFrom(Patch(data, offset, Slice(data, arrayOffset + num, 2)),
                       i + 1, sectorCount, sectorSize, arrayOffset)

\* One loop that verifies and patches sector by sector: at a mismatch the
\* sectors before it are patched already.
MismatchAtPatched(data, i, sectorSize, arrayOffset) ==
    PatchFrom(data, 0, i - 1, sectorSize, arrayOffset)

\* The buffer when the trailer of sector i fails to verify: the first loop
\* only compares, and the second has not begun.
MismatchAt(data, i, sectorSize, arrayOffset) == data

\* applyFixUp(b, offset, length) on the buffer at reference b
applyFixUp(heap, b, offset, length) ==
    LET data  == heap[b]
        n     == Len(data)
        Fault == [heap |-> heap, err |-> "panic"]
    IN  IF ~InRange(offset, offset + length * 2, n) THEN Fault
        ELSE IF ~InRange(0, 2, n - offset) THEN Fault
        ELSE IF ~InRange(2, length * 2, n - offset) THEN Fault
        ELSE LET updateSequenceNumber == Slice(data, offset, 2)
                 sectorCount == (length * 2 - 2) \div 2
             IN  IF sectorCount = 0 THEN Fault
                 ELSE LET sectorSize == n \div sectorCount
                          Stops(i) ==
                              \/ ~InRange(sectorSize * i - 2, sectorSize * i, n)
                              \/ Slice(data, sectorSize * i - 2, 2)
                                     # updateSequenceNumber
                          stops == {i \in 1..sectorCount : Stops(i)}
                      IN  IF stops # {}
                          THEN LET i == CHOOSE j \in stops :
                                            \A k \in stops : j <= k
                               IN  IF ~InRange(sectorSize * i - 2,
                                               sectorSize * i, n)
                                   THEN Fault
                                   ELSE [heap |-> [heap EXCEPT ![b] =
                                             MismatchAt(data, i, sectorSize,
                                                        offset + 2)],
                                         err |-> "FixUpMismatch"]
                          ELSE [heap |-> [heap EXCEPT ![b] =
                                    PatchFrom(data, 0, sectorCount, sectorSize,
                                              offset + 2)],
                                err |-> "nil"]

\* ParseAttribute on a slice of length n whose bytes up to its capacity are
\* data: reads below the capacity succeed, also beyond the length.
ParseAttributeIn(data, n) ==
    LET capacity == Len(data)
        Failed(e) == [err |-> e, attribute |-> <<>>]
    IN
    IF n < 22 THEN Failed("MalformedAttribute")
    ELSE
    LET nameLength == Slice(data, 9, 1)[1]
        nameOffset == Uint16(Slice(data, 10, 2))
    IN
    IF nameLength # 0
       /\ ~InRange(nameOffset, nameOffset + nameLength * 2, capacity)
    THEN Failed("panic")
    ELSE
    LET name == IF nameLength # 0
                THEN DecodeString(Slice(data, nameOffset, nameLength * 2))
                ELSE <<>>
        resident == Slice(data, 8, 1)[1] = 0
        Made(allocatedSize, actualSize, attributeData) ==
            [err |-> "nil",
             attribute |->
                [Type          |-> Uint32(Slice(data, 0, 4)),
                 Resident      |-> resident,
                 Name          |-> name,
                 Flags         |-> Uint16(Slice(data, 12, 2)),
                 AttributeId   |-> Uint16(Slice(data, 14, 2)),
                 AllocatedSize |-> allocatedSize,
                 ActualSize    |-> actualSize,
                 Data          |-> attributeData]]
    IN
    IF resident
    THEN LET dataOffset == Uint16(Slice(data, 20, 2))
             dataLength == IntOf(Uint32(Slice(data, 16, 4)))
             expectedDataLength == dataOffset + dataLength
         IN  IF n < expectedDataLength THEN Failed("MalformedAttribute")
             ELSE Made(Fill(8, 0), Fill(8, 0),
                       Slice(data, dataOffset, dataLength))
    ELSE IF ~InRange(32, 34, capacity) THEN Failed("panic")
    ELSE LET dataOffset == Uint16(Slice(data, 32, 2))
         IN  IF n < dataOffset THEN Failed("MalformedAttribute")
             ELSE IF ~InRange(40, 48, capacity) THEN Failed("panic")
             ELSE IF ~InRange(48, 56, capacity) THEN Failed("panic")
             ELSE Made(Uint64(Slice(data, 40, 8)), Uint64(Slice(data, 48, 8)),
                       SubSeq(data, dataOffset + 1, n))

\* ParseAttribute(b) for a b whose capacity is its length
ParseAttribute(b) == ParseAttributeIn(b, Len(b))

\* The loop of ParseAttributes over what is left of the input, b, with the
\* attributes decoded so far. recordData = b[0:recordLength] keeps the
\* capacity of b.
RECURSIVE ParseAttributesFrom(_, _)
ParseAttributesFrom(b, attributes) ==
    LET Failed(e) == [err |-> e, attributes |-> <<>>] IN
    IF Len(b) = 0 THEN [err |-> "nil", attributes |-> attributes]
    ELSE IF Len(b) < 4 THEN Failed("MalformedAttribute")
    ELSE IF Uint32(Slice(b, 0, 4)) = AttributeTypeTerminator
    THEN [err |-> "nil", attributes |-> attributes]
    ELSE IF Len(b) < 8 THEN Failed("MalformedAttribute")
    ELSE LET recordLength == IntOf(Uint32(Slice(b, 4, 4))) IN
         IF recordLength <= 0 THEN Failed("MalformedAttribute")
         ELSE IF recordLength > Len(b) THEN Failed("MalformedAttribute")
         ELSE LET parsed == ParseAttributeIn(b, recordLength) IN
              IF parsed.err # "nil" THEN Failed(parsed.err)
              ELSE ParseAttributesFrom(
                       SubSeq(b, recordLength + 1, Len(b)),
                       Append(attributes, parsed.attribute))

\* ParseAttributes(b)
ParseAttributes(b) == ParseAttributesFrom(b, <<>>)

\* ParseRecord(b) for the buffer at reference b0 of heap: the error ("nil":
\* none), the Record, the heap as the call leaves it and the reference of
\* the buffer it worked on (0: it made none).
ParseRecord(heap, b0) ==
    LET Failed(e, h, ref) == [err |-> e, rec |-> <<>>, heap |-> h, b |-> ref]
    IN
    IF Len(heap[b0]) < 42 THEN Failed("MalformedRecord", heap, 0)
    ELSE IF Slice(heap[b0], 0, 4) # fileSignature
    THEN Failed("BadSignature", heap, 0)
    ELSE
    LET dup  == Duplicate(heap, b0)
        b    == dup.ref
        data == dup.heap[b]
        baseRecordRef == ParseFileReference(Slice(data, 32, 8))
        firstAttributeOffset == Uint16(Slice(data, 20, 2))
    IN
    IF baseRecordRef.err # "nil" THEN Failed("MalformedRecord", dup.heap, b)
    ELSE IF firstAttributeOffset < 0 \/ firstAttributeOffset >= Len(data)
    THEN Failed("MalformedRecord", dup.heap, b)
    ELSE
    LET updateSequenceOffset == Uint16(Slice(data, 4, 2))
        updateSequenceSize   == Uint16(Slice(data, 6, 2))
        fixed == applyFixUp(dup.heap, b, updateSequenceOffset,
                            updateSequenceSize)
    IN
    IF fixed.err # "nil" THEN Failed(fixed.err, fixed.heap, b)
    ELSE
    LET r   == fixed.heap[b]
        sig == Slice(fixed.heap[b0], 0, 4)
        parsed == ParseAttributes(SubSeq(r, firstAttributeOffset + 1, Len(r)))
    IN
    IF parsed.err # "nil" THEN Failed(parsed.err, fixed.heap, b)
    ELSE IF ~InRange(44, 48, Len(r)) THEN Failed("panic", fixed.heap, b)
    ELSE [err  |-> "nil",
          heap |-> fixed.heap,
          b    |-> b,
          rec  |->
            [Signature             |-> sig,
             FileReference         |->
                [RecordNumber   |-> Uint32(Slice(r, 44, 4)) \o Fill(4, 0),
                 SequenceNumber |-> Uint16(Slice(r, 16, 2))],
             BaseRecordReference   |-> baseRecordRef.ref,
             LogFileSequenceNumber |-> Uint64(Slice(r, 8, 8)),
             HardLinkCount         |-> Uint16(Slice(r, 18, 2)),
             Flags                 |-> Uint16(Slice(r, 22, 2)),
             ActualSize            |-> Uint32(Slice(r, 24, 4)),
             AllocatedSize         |-> Uint32(Slice(r, 28, 4)),
             NextAttributeId       |-> Uint16(Slice(r, 40, 2)),
             Attributes            |-> parsed.attributes]]

---------------------------------------------------------------------------
(* The buffers ParseRecord is run on *)

MaxCalls == 2

\* data with bytes written at offset (0-based)
Put(data, offset, bytes) ==
    [k \in 1..Len(data) |->
        IF k > offset /\ k <= offset + Len(bytes) THEN bytes[k - offset]
        ELSE data[k]]

RECURSIVE PutAll(_, _)
PutAll(data, fields) ==
    IF fields = <<>> THEN data
    ELSE PutAll(Put(data, Head(fields)[1], Head(fields)[2]), Tail(fields))

\* The update sequence number every sector of a record on disk ends with.
Usn == <<7, 0>>

\* A record of 3 sectors of 32 bytes as it lies on disk: the header, the
\* update sequence (the number and the 3 pairs the sectors really end with)
\* at 48, one resident $DATA attribute of 32 bytes at 56 and the terminator
\* at 88. The trailer of sector 2 covers the upper half of the attribute's
\* record length, so the attribute only parses after fix-up.
PristineRecord ==
    PutAll(Fill(96, 0),
        << <<0, fileSignature>>,
           <<4, <<48, 0>>>>,
           <<6, <<4, 0>>>>,
           <<8, <<1, 2, 3, 4, 5, 6, 7, 8>>>>,
           <<16, <<9, 0>>>>,
           <<18, <<1, 0>>>>,
           <<20, <<56, 0>>>>,
           <<22, <<1, 0>>>>,
           <<24, <<92, 0, 0, 0>>>>,
           <<28, <<96, 0>>>>,
           <<32, <<26, 179, 6, 0, 0, 0, 45, 0>>>>,
           <<40, <<2, 0>>>>,
           <<44, <<5, 0, 0, 0>>>>,
           <<48, Usn>>,
           <<50, <<0, 0, 0, 0, 171, 205>>>>,
           <<56, <<128, 0, 0, 0, 32, 0>>>>,
           <<64, <<0, 0, 24, 0, 0, 0, 1, 0, 8, 0, 0, 0, 24, 0, 0, 0>>>>,
           <<80, <<49, 50, 51, 52, 53, 54, 55, 56>>>>,
           <<88, AttributeTypeTerminator>>,
           <<30, Usn>>, <<62, Usn>>, <<94, Usn>> >>)

\* Variations of the pristine record: its length, its signature, where and
\* how long its update sequence is said to be, where its attributes are
\* said to start and whether a sector's trailer is torn.
RecordLengths == {41, 42, 47, 48, 64, 96}
Signatures == {fileSignature, <<66, 65, 65, 68>>}
UpdateSequenceOffsets == {48, 0, 90, 94, 95, 200}
UpdateSequenceSizes == {0, 1, 2, 3, 4, 5}
FirstAttributeOffsets == {56, 88, 96, 200, 40}
TornTrailers == {<<>>, <<30, <<8, 0>>>>, <<94, <<8, 0>>>>}
\* The bytes at 0x28: the next attribute id 2, or 0xFFFF followed by 0xFFFF.
NextAttributeIds == {<<2, 0, 0, 0>>, <<255, 255, 255, 255>>}

RecordInputs ==
    {SubSeq(PutAll(PristineRecord,
                   << <<0, sig>>, <<4, <<uso, 0>>>>, <<6, <<uss, 0>>>>,
                      <<20, <<fao, 0>>>>, <<40, nid>> >>
                   \o (IF torn = <<>> THEN <<>> ELSE <<torn>>)),
            1, n) :
        n \in RecordLengths, sig \in Signatures,
        uso \in UpdateSequenceOffsets, uss \in UpdateSequenceSizes,
        fao \in FirstAttributeOffsets, torn \in TornTrailers,
        nid \in NextAttributeIds}

---------------------------------------------------------------------------
(* ParseRecord as a step: a caller parses the buffer it holds, again and   *)
(* again.                                                                  *)

DoParseRecord ==
    /\ pCalls < MaxCalls
    /\ LET res == ParseRecord(<<callerBuf>>, 1)
           ret == [err |-> res.err, rec |-> res.rec]
       IN  /\ callerBuf' = res.heap[1]
           /\ privateBuf' = IF res.b = 0 THEN <<>> ELSE res.heap[res.b]
           /\ pOut' = ret
           /\ pFirst' = IF pCalls = 0 THEN ret ELSE pFirst
    /\ pCalls' = pCalls + 1
    /\ UNCHANGED callerBuf0
    /\ UNCHANGED readerVars
    /\ UNCHANGED decodeVars
    /\ UNCHANGED fixVars
    /\ UNCHANGED outVars
    /\ UNCHANGED dumpVars
    /\ UNCHANGED walkVars
    /\ UNCHANGED shareVars

InitRecord ==
    /\ callerBuf \in RecordInputs
    /\ callerBuf0 = callerBuf
    /\ privateBuf = <<>>
    /\ pCalls = 0
    /\ pOut = <<>>
    /\ pFirst = <<>>
    /\ ReaderIdle
    /\ DecodeIdle
    /\ FixUpIdle
    /\ OutIdle
    /\ DumpIdle
    /\ WalkIdle
    /\ ShareIdle

NextRecord == DoParseRecord

SpecRecord == InitRecord /\ [][NextRecord]_vars

---------------------------------------------------------------------------
(* applyFixUp as a step: it is applied to one buffer, again and again, with *)
(* the same update sequence offset and size.                               *)

MaxFixUps == 2
MaxPairs == 5

\* Every buffer of 8 and of 10 bytes over two byte values: every pattern of
\* trailers that match or not and of array pairs that equal the update
\* sequence number or not, with the update sequence anywhere in the buffer,
\* over a trailer or past the end.
FixUpBufferLengths == {8, 10}

FixUpBytes == {1, 2}

FixUpBuffers ==
    UNION {[1..n -> FixUpBytes] : n \in FixUpBufferLengths}

DoApplyFixUp ==
    /\ Len(fixHist) < MaxFixUps
    /\ LET res == applyFixUp(<<fixBuf>>, 1, fixOffset, fixLength)
       IN  /\ fixBuf' = res.heap[1]
           /\ fixHist' = Append(fixHist, [err |-> res.err, b |-> res.heap[1]])
    /\ UNCHANGED <<fixBuf0, fixOffset, fixLength>>
    /\ UNCHANGED readerVars
    /\ UNCHANGED decodeVars
    /\ UNCHANGED recordVars
    /\ UNCHANGED outVars
    /\ UNCHANGED dumpVars
    /\ UNCHANGED walkVars
    /\ UNCHANGED shareVars

InitFixUp ==
    /\ fixBuf \in FixUpBuffers
    /\ fixBuf0 = fixBuf
    /\ fixOffset \in 0..(Len(fixBuf) + 1)
    /\ fixLength \in 0..MaxPairs
    /\ fixHist = <<>>
    /\ ReaderIdle
    /\ DecodeIdle
    /\ RecordIdle
    /\ OutIdle
    /\ DumpIdle
    /\ WalkIdle
    /\ ShareIdle

NextFixUp == DoApplyFixUp

SpecFixUp == InitFixUp /\ [][NextFixUp]_vars

---------------------------------------------------------------------------
(* ParseAttribute as a step, on a slice of length inLen of a buffer whose   *)
(* bytes up to the slice's capacity are inBytes.                           *)

\* The input of TestParseAttributeNamedResidentAttribute: $DATA, resident,
\* named "$SRAT" at 0x18, 0x44 bytes of data at 0x28.
ResidentAttributeInput ==
    <<128, 0, 0, 0, 112, 0, 0, 0, 0, 5, 24, 0, 0, 0, 5, 0,
      68, 0, 0, 0, 40, 0, 0, 0, 36, 0, 83, 0, 82, 0, 65, 0,
      84, 0, 0, 0, 0, 0, 0, 0, 51, 206, 184, 243, 56, 0, 1, 3,
      16, 0, 12, 0, 4, 0, 0, 0, 1, 0, 0, 0, 1, 0, 0, 0,
      0, 0, 0, 0, 2, 0, 0, 0, 0, 0, 0, 0, 0, 0, 0, 0,
      3, 0, 0, 0, 1, 0, 0, 0, 0, 0, 0, 0, 0, 0, 0, 0,
      0, 0, 0, 0, 244, 196, 0, 0, 0, 0, 0, 0, 0, 0, 0, 0>>

\* The input of TestParseAttributeNamedNonResidentAttribute:
\* $INDEX_ALLOCATION, non-resident, named "$I30" at 0x40, data runs at 0x48.
NonResidentAttributeInput ==
    <<160, 0, 0, 0, 80, 0, 0, 0, 1, 4, 64, 0, 0, 0, 8, 0,
      0, 0, 0, 0, 0, 0, 0, 0, 2, 0, 0, 0, 0, 0, 0, 0,
      72, 0, 0, 0, 0, 0, 0, 0, 0, 48, 0, 0, 0, 0, 0, 0,
      0, 48, 0, 0, 0, 0, 0, 0, 0, 48, 0, 0, 0, 0, 0, 0,
      36, 0, 73, 0, 51, 0, 48, 0, 33, 3, 8, 18, 0, 0, 0, 0>>

\* Variations of the two: the name's length and offset, the data's offset
\* and (resident) length, the slice's length and its capacity.
NameLengths == {0, 1, 4, 5}
NameOffsets == {24, 64, 76, 200}
DataOffsets == {40, 72, 80, 81, 200}
DataLengths == {<<68, 0, 0, 0>>, <<0, 0, 0, 0>>, <<73, 0, 0, 0>>,
                <<255, 255, 255, 255>>}
SliceLengths == {21, 22, 33, 34, 47, 55, 56, 80}
SpareCapacities == {0, 1, 32}

AttributeBuffers ==
    {PutAll(ResidentAttributeInput,
            << <<9, <<nl>>>>, <<10, <<no, 0>>>>, <<20, <<do, 0>>>>, <<16, dl>> >>) :
        nl \in NameLengths, no \in NameOffsets, do \in DataOffsets,
        dl \in DataLengths}
    \cup
    {PutAll(NonResidentAttributeInput \o Fill(32, 0),
            << <<9, <<nl>>>>, <<10, <<no, 0>>>>, <<32, <<do, 0>>>> >>) :
        nl \in NameLengths, no \in NameOffsets, do \in DataOffsets}

\* A slice b: the bytes up to its capacity and its length.
AttributeInputs ==
    {[data |-> SubSeq(buf, 1, n + spare), n |-> n] :
        buf \in AttributeBuffers, n \in SliceLengths, spare \in SpareCapacities}
    \cup {[data |-> ResidentAttributeInput, n |-> Len(ResidentAttributeInput)],
          [data |-> NonResidentAttributeInput, n |-> Len(NonResidentAttributeInput)]}

DoParseAttribute ==
    /\ call = "none"
    /\ call' = "ParseAttribute"
    /\ dErr' = ParseAttributeIn(inBytes, inLen).err
    /\ dOut' = ParseAttributeIn(inBytes, inLen).attribute
    /\ UNCHANGED <<inBytes, inBpc, dRuns, dFrags, dRef, inLen>>
    /\ UNCHANGED readerVars
    /\ UNCHANGED recordVars
    /\ UNCHANGED fixVars
    /\ UNCHANGED dumpVars
    /\ UNCHANGED walkVars
    /\ UNCHANGED shareVars

InitAttribute ==
    /\ \E in \in AttributeInputs :
          /\ inBytes = in.data
          /\ inLen = in.n
    /\ inBpc = 1
    /\ call = "none"
    /\ dErr = "nil"
    /\ dRuns = <<>>
    /\ dFrags = <<>>
    /\ dRef = <<>>
    /\ dOut = <<>>
    /\ ReaderIdle
    /\ RecordIdle
    /\ FixUpIdle
    /\ DumpIdle
    /\ WalkIdle
    /\ ShareIdle

NextAttribute == DoParseAttribute

SpecAttribute == InitAttribute /\ [][NextAttribute]_vars

---------------------------------------------------------------------------
(* The stream decoders as steps: ParseAttributes and ParseDataRuns on a    *)
(* stream of elements, well-formed and malformed.                          *)

MaxElements == 3

\* The resident $DATA attribute of PristineRecord after fix-up: 32 bytes.
SmallAttribute ==
    <<128, 0, 0, 0, 32, 0, 0, 0, 0, 0, 24, 0, 0, 0, 1, 0,
      8, 0, 0, 0, 24, 0, 0, 0, 49, 50, 51, 52, 53, 54, 55, 56>>

\* The elements a stream is made of: two attributes, the terminator, an
\* attribute header with record length 0, one whose record length exceeds
\* what is left, one with fewer than 8 and one with fewer than 4 bytes, an
\* attribute of 16 bytes (fewer than 22), a non-resident attribute of 24
\* bytes (shorter than a non-resident header); two data runs, the end of a
\* run list and a run whose header announces more bytes than follow; a run
\* without offset bytes.
StreamElements ==
    {SmallAttribute,
     NonResidentAttributeInput,
     <<128, 0, 0, 0, 24, 0, 0, 0, 1, 0, 0, 0, 0, 0, 1, 0,
       0, 0, 0, 0, 0, 0, 0, 0>>,
     AttributeTypeTerminator,
     <<16, 0, 0, 0, 0, 0, 0, 0>>,
     <<16, 0, 0, 0, 200, 0, 0, 0>>,
     <<16, 0, 0, 0, 1>>,
     <<16, 0>>,
     <<48, 0, 0, 0, 16, 0, 0, 0, 0, 0, 0, 0, 0, 0, 0, 0>>,
     <<33, 5, 16, 32>>,
     <<17, 3, 255>>,
     <<1, 5>>,
     <<0>>,
     <<68, 1, 2>>}

RECURSIVE Flatten(_)
Flatten(ss) == IF ss = <<>> THEN <<>> ELSE Head(ss) \o Flatten(Tail(ss))

StreamInputs == {Flatten(ss) : ss \in SeqsUpTo(StreamElements, MaxElements)}

DoParseAttributes ==
    /\ call = "none"
    /\ call' = "ParseAttributes"
    /\ dErr' = ParseAttributes(inBytes).err
    /\ dOut' = ParseAttributes(inBytes).attributes
    /\ UNCHANGED <<inBytes, inBpc, dRuns, dFrags, dRef, inLen>>
    /\ UNCHANGED readerVars
    /\ UNCHANGED recordVars
    /\ UNCHANGED fixVars
    /\ UNCHANGED dumpVars
    /\ UNCHANGED walkVars
    /\ UNCHANGED shareVars

InitStream ==
    /\ inBytes \in StreamInputs
    /\ inLen = Len(inBytes)
    /\ inBpc = 1
    /\ call = "none"
    /\ dErr = "nil"
    /\ dRuns = <<>>
    /\ dFrags = <<>>
    /\ dRef = <<>>
    /\ dOut = <<>>
    /\ ReaderIdle
    /\ RecordIdle
    /\ FixUpIdle
    /\ DumpIdle
    /\ WalkIdle
    /\ ShareIdle

NextStream ==
    \/ DoParseAttributes
    \/ DoParseDataRuns

SpecStream == InitStream /\ [][NextStream]_vars

---------------------------------------------------------------------------
(* bootsect/bootsect.go. A Go int is 64 bits wide: an 8-byte word.         *)

\* int(int8(b)) for a byte b
Int8(b) == IF b >= 128 THEN b - 256 ELSE b

\* 1 << n for an int and a shift count n >= 0: bit n, and 0 once n
\* reaches the width of the int.
ShiftLeftOne(n) ==
    IF n >= 64 THEN Fill(8, 0)
    ELSE [i \in 1..8 |-> IF i = (n \div 8) + 1 THEN 2 ^ (n % 8) ELSE 0]

\* bytesOrClustersToBytes(b, bytesPerCluster)
bytesOrClustersToBytes(b, bytesPerCluster) ==
    LET i == Int8(b) IN
    IF i < 0 THEN ShiftLeftOne(-i)
    ELSE MulW(IntToWord(i, 8), bytesPerCluster)

\* bootsect.Parse(data)
Parse(data) ==
    IF Len(data) < 80
    THEN [err |-> "TooShort", bootSector |-> <<>>]
    ELSE
    LET bytesPerSector == IntToWord(Uint16(Slice(data, 11, 2)), 8)
        signedSectors  == Int8(Slice(data, 13, 1)[1])
        sectorsPerCluster ==
            IF signedSectors < 0 THEN ShiftLeftOne(-signedSectors)
            ELSE IntToWord(signedSectors, 8)
        bytesPerCluster == MulW(bytesPerSector, sectorsPerCluster)
    IN  [err |-> "nil",
         bootSector |->
            [OemId                  |-> Slice(data, 3, 8),
             BytesPerSector         |-> bytesPerSector,
             SectorsPerCluster      |-> sectorsPerCluster,
             MediaDescriptor        |-> Slice(data, 21, 1)[1],
             SectorsPerTrack        |-> Uint16(Slice(data, 24, 2)),
             NumberofHeads          |-> Uint16(Slice(data, 26, 2)),
             HiddenSectors          |-> Uint16(Slice(data, 28, 2)),
             TotalSectors           |-> Uint64(Slice(data, 40, 8)),
             MftClusterNumber       |-> Uint64(Slice(data, 48, 8)),
             MftMirrorClusterNumber |-> Uint64(Slice(data, 56, 8)),
             FileRecordSegmentSizeInBytes |->
                bytesOrClustersToBytes(Slice(data, 64, 1)[1], bytesPerCluster),
             IndexBufferSizeInBytes |->
                bytesOrClustersToBytes(Slice(data, 68, 1)[1], bytesPerCluster),
             VolumeSerialNumber     |-> Slice(data, 72, 8)]]

\* The first 80 bytes of the boot sector of bootsect_test.go.
TestBootSectorInput ==
    <<235, 82, 144, 78, 84, 70, 83, 32, 32, 32, 32, 0, 2, 8, 0, 0,
      0, 0, 0, 0, 0, 248, 0, 0, 63, 0, 255, 0, 0, 40, 3, 0,
      0, 0, 0, 0, 128, 0, 128, 0, 16, 130, 91, 116, 0, 0, 0, 0,
      0, 0, 12, 0, 0, 0, 0, 0, 2, 0, 0, 0, 0, 0, 0, 0,
      246, 0, 0, 0, 1, 0, 0, 0, 163, 112, 215, 76, 49, 17, 92, 62>>

\* Boot sectors: the one of the test with every size byte, with sector
\* sizes from 0 to 0xFFFF and sectors-per-cluster bytes of both signs, with
\* another OEM id, cut to a length from 0 to 80 or followed by the rest of
\* the sector.
SizeBytes == 0..255
SectorSizes == {<<0, 2>>, <<0, 0>>, <<1, 0>>, <<255, 255>>}
SectorsPerClusterBytes == {8, 0, 127, 128, 193, 249}
OemIds == {<<78, 84, 70, 83, 32, 32, 32, 32>>,
           <<77, 83, 68, 79, 83, 53, 46, 48>>}
BootSectorLengths == {0, 79, 80, 81, 512}

BootSectorInputs ==
    LET Cut(b, n) == SubSeq(b \o Fill(512 - Len(b), 0), 1, n)
    IN  {PutAll(TestBootSectorInput,
                << <<11, bps>>, <<13, <<spc>>>>, <<64, <<frs>>>> >>) :
            bps \in SectorSizes, spc \in SectorsPerClusterBytes,
            frs \in SizeBytes}
        \cup {PutAll(TestBootSectorInput,
                     << <<13, <<spc>>>>, <<68, <<ibs>>>> >>) :
            spc \in SizeBytes, ibs \in {1, 246}}
        \cup {Cut(PutAll(TestBootSectorInput, << <<3, oem>> >>), n) :
            oem \in OemIds, n \in BootSectorLengths}

---------------------------------------------------------------------------
(* bootsect.Parse as a step *)

DoParse ==
    /\ call = "none"
    /\ call' = "Parse"
    /\ dErr' = Parse(inBytes).err
    /\ dOut' = Parse(inBytes).bootSector
    /\ UNCHANGED <<inBytes, inBpc, dRuns, dFrags, dRef, inLen>>
    /\ UNCHANGED readerVars
    /\ UNCHANGED recordVars
    /\ UNCHANGED fixVars
    /\ UNCHANGED dumpVars
    /\ UNCHANGED walkVars
    /\ UNCHANGED shareVars

InitBoot ==
    /\ inBytes \in BootSectorInputs
    /\ inLen = Len(inBytes)
    /\ inBpc = 1
    /\ call = "none"
    /\ dErr = "nil"
    /\ dRuns = <<>>
    /\ dFrags = <<>>
    /\ dRef = <<>>
    /\ dOut = <<>>
    /\ ReaderIdle
    /\ RecordIdle
    /\ FixUpIdle
    /\ DumpIdle
    /\ WalkIdle
    /\ ShareIdle

NextBoot == DoParse

SpecBoot == InitBoot /\ [][NextBoot]_vars

---------------------------------------------------------------------------
(* cmd/mftdump/main.go: main, statement by statement. fatalf ends the      *)
(* process through os.Exit, which runs no deferred call; a run-time panic  *)
(* and the return from main run the deferred calls, latest first.          *)

exitCodeUserError == 2
exitCodeFunctionalError == 3
exitCodeTechnicalError == 4
exitCodePanic == 2

supportedOemId == <<78, 84, 70, 83, 32, 32, 32, 32>>
AttributeTypeStandardInformation == <<16, 0, 0, 0>>
AttributeTypeData == <<128, 0, 0, 0>>

\* The first match only, as a lookup that stops at the first $DATA would
\* return.
FindFirstAttribute(rec, attrType) ==
    LET found == SelectSeq(rec.Attributes, LAMBDA a : a.Type = attrType)
    IN  IF found = <<>> THEN <<>> ELSE <<found[1]>>

\* Record.FindAttributes(attrType)
FindAttributes(rec, attrType) ==
    SelectSeq(rec.Attributes, LAMBDA a : a.Type = attrType)

\* io.ReadFull(in, buf) for a buf of n bytes when the bytes from the
\* handle's position to the end of the volume are avail.
ReadFullVolume(avail, n) ==
    IF Len(avail) >= n THEN [err |-> "nil", data |-> SubSeq(avail, 1, n)]
    ELSE IF Len(avail) = 0 THEN [err |-> "EOF", data |-> <<>>]
    ELSE [err |-> "ErrUnexpectedEOF", data |-> <<>>]

\* The loop that adds up int64(frag.Length)
RECURSIVE TotalLength(_)
TotalLength(frags) ==
    IF frags = <<>> THEN Fill(8, 0)
    ELSE AddW(Head(frags).Length, TotalLength(Tail(frags)))

\* Whether the int64 w is negative, and its value when it is below 2^16.
IsNegative(w) == w[8] >= 128
IsSmall(w) == SubSeq(w, 3, 8) = Fill(6, 0)

\* What an operation of the operating system may return besides success.
IoErrors == {"nil", "EIO"}

\* os.Exit(code): the process ends as it stands.
Exit(code) ==
    /\ pc' = "exited"
    /\ exitCode' = code

\* fatalf(exitCode, ...)
fatalf(code) == Exit(code)

\* The deferred calls run, latest first: each closes its handle.
RunDeferred ==
    /\ inFile' = IF \E i \in 1..Len(deferred) : deferred[i] = "in.Close"
                 THEN "closed" ELSE inFile
    /\ outFile' = IF \E i \in 1..Len(deferred) : deferred[i] = "out.Close"
                  THEN "closed" ELSE outFile
    /\ deferred' = <<>>

\* A run-time panic in main's goroutine.
Panic ==
    /\ RunDeferred
    /\ pc' = "exited"
    /\ exitCode' = exitCodePanic

\* if len(args) != 2 { printUsage(); os.Exit(exitCodeUserError) }
CheckArgs ==
    /\ pc = "args"
    /\ IF nArgs # 2 THEN Exit(exitCodeUserError)
       ELSE pc' = "os.Open" /\ UNCHANGED exitCode
    /\ UNCHANGED <<nArgs, overwriteOutputIfExists, volume, outPath, inFile,
                   outFile, deferred, bootSectorData, bootSector, mftData,
                   record, dataAttributes, dataRuns, dumpFragments, written>>
    /\ UNCHANGED readerVars
    /\ UNCHANGED decodeVars
    /\ UNCHANGED recordVars
    /\ UNCHANGED fixVars
    /\ UNCHANGED outVars
    /\ UNCHANGED walkVars
    /\ UNCHANGED shareVars

\* in, err := os.Open(volume); defer in.Close()
OpenVolume ==
    /\ pc = "os.Open"
    /\ \E err \in IoErrors :
          IF err # "nil"
          THEN fatalf(exitCodeTechnicalError) /\ UNCHANGED <<inFile, deferred>>
          ELSE /\ inFile' = "open"
               /\ deferred' = Append(deferred, "in.Close")
               /\ pc' = "ReadBootSector"
               /\ UNCHANGED exitCode
    /\ UNCHANGED <<nArgs, overwriteOutputIfExists, volume, outPath, outFile,
                   bootSectorData, bootSector, mftData, record, dataAttributes,
                   dataRuns, dumpFragments, written>>
    /\ UNCHANGED readerVars
    /\ UNCHANGED decodeVars
    /\ UNCHANGED recordVars
    /\ UNCHANGED fixVars
    /\ UNCHANGED outVars
    /\ UNCHANGED walkVars
    /\ UNCHANGED shareVars

\* bootSectorData := make([]byte, 512); io.ReadFull(in, bootSectorData)
ReadBootSector ==
    /\ pc = "ReadBootSector"
    /\ \E err \in IoErrors :
          LET got == ReadFullVolume(volume.bootSector, 512) IN
          IF err # "nil" \/ got.err # "nil"
          THEN fatalf(exitCodeTechnicalError) /\ UNCHANGED bootSectorData
          ELSE /\ bootSectorData' = got.data
               /\ pc' = "Parse"
               /\ UNCHANGED exitCode
    /\ UNCHANGED <<nArgs, overwriteOutputIfExists, volume, outPath, inFile,
                   outFile, deferred, bootSector, mftData, record,
                   dataAttributes, dataRuns, dumpFragments, written>>
    /\ UNCHANGED readerVars
    /\ UNCHANGED decodeVars
    /\ UNCHANGED recordVars
    /\ UNCHANGED fixVars
    /\ UNCHANGED outVars
    /\ UNCHANGED walkVars
    /\ UNCHANGED shareVars

\* bootSector, err := bootsect.Parse(bootSectorData)
ParseBootSector ==
    /\ pc = "Parse"
    /\ LET parsed == Parse(bootSectorData) IN
       IF parsed.err # "nil"
       THEN fatalf(exitCodeTechnicalError) /\ UNCHANGED bootSector
       ELSE /\ bootSector' = parsed.bootSector
            /\ pc' = "OemId"
            /\ UNCHANGED exitCode
    /\ UNCHANGED <<nArgs, overwriteOutputIfExists, volume, outPath, inFile,
                   outFile, deferred, bootSectorData, mftData, record,
                   dataAttributes, dataRuns, dumpFragments, written>>
    /\ UNCHANGED readerVars
    /\ UNCHANGED decodeVars
    /\ UNCHANGED recordVars
    /\ UNCHANGED fixVars
    /\ UNCHANGED outVars
    /\ UNCHANGED walkVars
    /\ UNCHANGED shareVars

\* if bootSector.OemId != supportedOemId { fatalf(...) }
CheckOemId ==
    /\ pc = "OemId"
    /\ IF bootSector.OemId # supportedOemId
       THEN fatalf(exitCodeFunctionalError)
       ELSE pc' = "Seek" /\ UNCHANGED exitCode
    /\ UNCHANGED <<nArgs, overwriteOutputIfExists, volume, outPath, inFile,
                   outFile, deferred, bootSectorData, bootSector, mftData,
                   record, dataAttributes, dataRuns, dumpFragments, written>>
    /\ UNCHANGED readerVars
    /\ UNCHANGED decodeVars
    /\ UNCHANGED recordVars
    /\ UNCHANGED fixVars
    /\ UNCHANGED outVars
    /\ UNCHANGED walkVars
    /\ UNCHANGED shareVars

\* bytesPerCluster := bootSector.BytesPerSector * bootSector.SectorsPerCluster
bytesPerClusterOf(bs) == MulW(bs.BytesPerSector, bs.SectorsPerCluster)

\* mftPosInBytes := int64(bootSector.MftClusterNumber) * int64(bytesPerCluster)
mftPosInBytesOf(bs) == MulW(bs.MftClusterNumber, bytesPerClusterOf(bs))

\* in.Seek(mftPosInBytes, 0): a negative position is an error.
SeekMft ==
    /\ pc = "Seek"
    /\ \E err \in IoErrors :
          IF err # "nil" \/ IsNegative(mftPosInBytesOf(bootSector))
          THEN fatalf(exitCodeTechnicalError)
          ELSE pc' = "ReadRecord" /\ UNCHANGED exitCode
    /\ UNCHANGED <<nArgs, overwriteOutputIfExists, volume, outPath, inFile,
                   outFile, deferred, bootSectorData, bootSector, mftData,
                   record, dataAttributes, dataRuns, dumpFragments, written>>
    /\ UNCHANGED readerVars
    /\ UNCHANGED decodeVars
    /\ UNCHANGED recordVars
    /\ UNCHANGED fixVars
    /\ UNCHANGED outVars
    /\ UNCHANGED walkVars
    /\ UNCHANGED shareVars

\* mftData := make([]byte, mftSizeInBytes); io.ReadFull(in, mftData). make
\* panics on a negative length; a length of 2^16 or more is beyond what the
\* volumes here hold, and make runs out of memory or the read comes short.
ReadRecord ==
    /\ pc = "ReadRecord"
    /\ LET mftSizeInBytes == bootSector.FileRecordSegmentSizeInBytes IN
       \E err \in IoErrors, huge \in {"panic", "short"} :
          IF IsNegative(mftSizeInBytes)
             \/ (~IsSmall(mftSizeInBytes) /\ huge = "panic")
          THEN Panic /\ UNCHANGED mftData
          ELSE LET got == ReadFullVolume(volume.mft, Uint16(mftSizeInBytes))
               IN  IF err # "nil" \/ ~IsSmall(mftSizeInBytes)
                      \/ got.err # "nil"
                   THEN /\ fatalf(exitCodeTechnicalError)
                        /\ UNCHANGED <<mftData, inFile, outFile, deferred>>
                   ELSE /\ mftData' = got.data
                        /\ pc' = "ParseRecord"
                        /\ UNCHANGED <<exitCode, inFile, outFile, deferred>>
    /\ UNCHANGED <<nArgs, overwriteOutputIfExists, volume, outPath,
                   bootSectorData, bootSector, record, dataAttributes,
                   dataRuns, dumpFragments, written>>
    /\ UNCHANGED readerVars
    /\ UNCHANGED decodeVars
    /\ UNCHANGED recordVars
    /\ UNCHANGED fixVars
    /\ UNCHANGED outVars
    /\ UNCHANGED walkVars
    /\ UNCHANGED shareVars

\* record, err := mft.ParseRecord(mftData)
ParseMftRecord ==
    /\ pc = "ParseRecord"
    /\ LET parsed == ParseRecord(<<mftData>>, 1) IN
       IF parsed.err = "panic" THEN Panic /\ UNCHANGED <<record, mftData>>
       ELSE IF parsed.err # "nil"
       THEN /\ fatalf(exitCodeTechnicalError)
            /\ mftData' = parsed.heap[1]
            /\ UNCHANGED <<record, inFile, outFile, deferred>>
       ELSE /\ record' = parsed.rec
            /\ mftData' = parsed.heap[1]
            /\ pc' = "FindAttributes"
            /\ UNCHANGED <<exitCode, inFile, outFile, deferred>>
    /\ UNCHANGED <<nArgs, overwriteOutputIfExists, volume, outPath,
                   bootSectorData, bootSector, dataAttributes, dataRuns,
                   dumpFragments, written>>
    /\ UNCHANGED readerVars
    /\ UNCHANGED decodeVars
    /\ UNCHANGED recordVars
    /\ UNCHANGED fixVars
    /\ UNCHANGED outVars
    /\ UNCHANGED walkVars
    /\ UNCHANGED shareVars

\* dataAttributes := record.FindAttributes(mft.AttributeTypeData) and the
\* two checks of len(dataAttributes)
FindDataAttributes ==
    /\ pc = "FindAttributes"
    /\ LET found == FindAttributes(record, AttributeTypeData) IN
       /\ dataAttributes' = found
       /\ IF Len(found) = 0 THEN fatalf(exitCodeTechnicalError)
          ELSE IF Len(found) > 1 THEN fatalf(exitCodeTechnicalError)
          ELSE pc' = "Resident" /\ UNCHANGED exitCode
    /\ UNCHANGED <<nArgs, overwriteOutputIfExists, volume, outPath, inFile,
                   outFile, deferred, bootSectorData, bootSector, mftData,
                   record, dataRuns, dumpFragments, written>>
    /\ UNCHANGED readerVars
    /\ UNCHANGED decodeVars
    /\ UNCHANGED recordVars
    /\ UNCHANGED fixVars
    /\ UNCHANGED outVars
    /\ UNCHANGED walkVars
    /\ UNCHANGED shareVars

\* dataAttribute := dataAttributes[0]; if dataAttribute.Resident { fatalf }
CheckResident ==
    /\ pc = "Resident"
    /\ IF dataAttributes[1].Resident THEN fatalf(exitCodeTechnicalError)
       ELSE pc' = "ParseDataRuns" /\ UNCHANGED exitCode
    /\ UNCHANGED <<nArgs, overwriteOutputIfExists, volume, outPath, inFile,
                   outFile, deferred, bootSectorData, bootSector, mftData,
                   record, dataAttributes, dataRuns, dumpFragments, written>>
    /\ UNCHANGED readerVars
    /\ UNCHANGED decodeVars
    /\ UNCHANGED recordVars
    /\ UNCHANGED fixVars
    /\ UNCHANGED outVars
    /\ UNCHANGED walkVars
    /\ UNCHANGED shareVars

\* A main that goes on whatever ParseDataRuns returned.
ParseRunsUnchecked ==
    /\ pc = "ParseDataRuns"
    /\ dataRuns' = ParseDataRuns(dataAttributes[1].Data).runs
    /\ pc' = "DataRunsToFragments"
    /\ UNCHANGED <<nArgs, overwriteOutputIfExists, volume, outPath, inFile,
                   outFile, deferred, bootSectorData, bootSector, mftData,
                   record, dataAttributes, dumpFragments, written, exitCode>>
    /\ UNCHANGED readerVars
    /\ UNCHANGED decodeVars
    /\ UNCHANGED recordVars
    /\ UNCHANGED fixVars
    /\ UNCHANGED outVars
    /\ UNCHANGED walkVars
    /\ UNCHANGED shareVars

\* dataRuns, err := mft.ParseDataRuns(dataAttribute.Data) and the check of
\* len(dataRuns)
ParseRuns ==
    /\ pc = "ParseDataRuns"
    /\ LET parsed == ParseDataRuns(dataAttributes[1].Data) IN
       /\ dataRuns' = parsed.runs
       /\ IF parsed.err # "nil" THEN fatalf(exitCodeTechnicalError)
          ELSE IF Len(parsed.runs) = 0 THEN fatalf(exitCodeTechnicalError)
          ELSE pc' = "DataRunsToFragments" /\ UNCHANGED exitCode
    /\ UNCHANGED <<nArgs, overwriteOutputIfExists, volume, outPath, inFile,
                   outFile, deferred, bootSectorData, bootSector, mftData,
                   record, dataAttributes, dumpFragments, written>>
    /\ UNCHANGED readerVars
    /\ UNCHANGED decodeVars
    /\ UNCHANGED recordVars
    /\ UNCHANGED fixVars
    /\ UNCHANGED outVars
    /\ UNCHANGED walkVars
    /\ UNCHANGED shareVars

\* fragments := mft.DataRunsToFragments(dataRuns, bytesPerCluster)
MakeFragments ==
    /\ pc = "DataRunsToFragments"
    /\ dumpFragments' = FragmentsFrom(dataRuns, Fill(8, 0),
                                      bytesPerClusterOf(bootSector))
    /\ pc' = "openOutputFile"
    /\ UNCHANGED <<nArgs, overwriteOutputIfExists, volume, outPath, inFile,
                   outFile, deferred, bootSectorData, bootSector, mftData,
                   record, dataAttributes, dataRuns, written, exitCode>>
    /\ UNCHANGED readerVars
    /\ UNCHANGED decodeVars
    /\ UNCHANGED recordVars
    /\ UNCHANGED fixVars
    /\ UNCHANGED outVars
    /\ UNCHANGED walkVars
    /\ UNCHANGED shareVars

\* openOutputFile(outfile): os.Create when overwriteOutputIfExists, else
\* os.OpenFile with O_WRONLY|O_CREATE|O_EXCL, which fails on a path that
\* exists.
openOutputFile(err) ==
    IF err # "nil" THEN [err |-> err, path |-> outPath]
    ELSE IF overwriteOutputIfExists
    THEN [err |-> "nil",
          path |-> IF outPath = "absent" THEN "created" ELSE "truncated"]
    ELSE IF outPath # "absent" THEN [err |-> "EEXIST", path |-> outPath]
    ELSE [err |-> "nil", path |-> "created"]

\* out, err := openOutputFile(outfile); defer out.Close()
OpenOutput ==
    /\ pc = "openOutputFile"
    /\ \E err \in IoErrors :
          LET opened == openOutputFile(err) IN
          /\ outPath' = opened.path
          /\ IF opened.err # "nil"
             THEN /\ fatalf(exitCodeFunctionalError)
                  /\ UNCHANGED <<outFile, deferred>>
             ELSE /\ outFile' = "open"
                  /\ deferred' = Append(deferred, "out.Close")
                  /\ pc' = "copy"
                  /\ UNCHANGED exitCode
    /\ UNCHANGED <<nArgs, overwriteOutputIfExists, volume, inFile,
                   bootSectorData, bootSector, mftData, record, dataAttributes,
                   dataRuns, dumpFragments, written>>
    /\ UNCHANGED readerVars
    /\ UNCHANGED decodeVars
    /\ UNCHANGED recordVars
    /\ UNCHANGED fixVars
    /\ UNCHANGED outVars
    /\ UNCHANGED walkVars
    /\ UNCHANGED shareVars

\* n, err := copy(out, fragment.NewReader(in, fragments), totalLength) and
\* the checks of err and of n: the copy writes all the bytes, or stops
\* early, with or without an error.
CopyFragments ==
    /\ pc = "copy"
    /\ LET totalLength == TotalLength(dumpFragments) IN
       \E err \in IoErrors, n \in {totalLength, Fill(8, 0)} :
          /\ written' = n
          /\ IF err # "nil" THEN fatalf(exitCodeTechnicalError)
             ELSE IF n # totalLength THEN fatalf(exitCodeTechnicalError)
             ELSE pc' = "return" /\ UNCHANGED exitCode
    /\ UNCHANGED <<nArgs, overwriteOutputIfExists, volume, outPath, inFile,
                   outFile, deferred, bootSectorData, bootSector, mftData,
                   record, dataAttributes, dataRuns, dumpFragments>>
    /\ UNCHANGED readerVars
    /\ UNCHANGED decodeVars
    /\ UNCHANGED recordVars
    /\ UNCHANGED fixVars
    /\ UNCHANGED outVars
    /\ UNCHANGED walkVars
    /\ UNCHANGED shareVars

\* main returns: the deferred calls run and the process ends with status 0.
ReturnFromMain ==
    /\ pc = "return"
    /\ RunDeferred
    /\ pc' = "exited"
    /\ exitCode' = 0
    /\ UNCHANGED <<nArgs, overwriteOutputIfExists, volume, outPath,
                   bootSectorData, bootSector, mftData, record, dataAttributes,
                   dataRuns, dumpFragments, written>>
    /\ UNCHANGED readerVars
    /\ UNCHANGED decodeVars
    /\ UNCHANGED recordVars
    /\ UNCHANGED fixVars
    /\ UNCHANGED outVars
    /\ UNCHANGED walkVars
    /\ UNCHANGED shareVars

---------------------------------------------------------------------------
(* The volumes mftdump is run on *)

MaxAttributes == 2

\* A non-resident $DATA attribute of 72 bytes: the header of 64 bytes, then
\* 8 bytes of data runs.
NonResidentData(runs) ==
    PutAll(Fill(72, 0),
        << <<0, AttributeTypeData>>,
           <<4, <<72, 0, 0, 0>>>>,
           <<8, <<1>>>>,
           <<10, <<64, 0>>>>,
           <<14, <<1, 0>>>>,
           <<32, <<64, 0>>>>,
           <<40, <<0, 16, 0, 0, 0, 0, 0, 0>>>>,
           <<48, <<0, 16, 0, 0, 0, 0, 0, 0>>>>,
           <<64, runs>> >>)

\* Run lists of 8 bytes with the number of runs they hold: one run, two
\* runs, none, and a run whose header announces more bytes than follow
\* (-1: malformed).
RunListChoices ==
    {[bytes |-> <<33, 5, 16, 32, 0, 0, 0, 0>>, runs |-> 1],
     [bytes |-> <<17, 3, 255, 17, 2, 1, 0, 0>>, runs |-> 2],
     [bytes |-> Fill(8, 0), runs |-> 0],
     [bytes |-> <<17, 3, 1, 68, 1, 2, 3, 4>>, runs |-> -1]}

\* The attributes a record is made of, each with what it is: a resident
\* $STANDARD_INFORMATION, a resident $DATA, a non-resident $DATA per run list.
AttributeChoices ==
    {[Type |-> AttributeTypeStandardInformation, Resident |-> TRUE, runs |-> 0,
      bytes |-> Put(SmallAttribute, 0, AttributeTypeStandardInformation)],
     [Type |-> AttributeTypeData, Resident |-> TRUE, runs |-> 0,
      bytes |-> SmallAttribute]}
    \cup {[Type |-> AttributeTypeData, Resident |-> FALSE, runs |-> rl.runs,
           bytes |-> NonResidentData(rl.bytes)] : rl \in RunListChoices}

\* A record of 2 sectors of 256 bytes as it lies on disk, holding the
\* attributes of layout and the terminator from offset 56: the last two
\* bytes of each sector are kept in the update sequence at 48 and replaced
\* by the update sequence number.
MftRecord(layout) ==
    LET raw == PutAll(Fill(512, 0),
                   << <<0, fileSignature>>,
                      <<4, <<48, 0>>>>,
                      <<6, <<3, 0>>>>,
                      <<16, <<1, 0>>>>,
                      <<18, <<1, 0>>>>,
                      <<20, <<56, 0>>>>,
                      <<22, <<1, 0>>>>,
                      <<28, <<0, 2, 0, 0>>>>,
                      <<56, Flatten([i \in 1..Len(layout) |-> layout[i].bytes])
                            \o AttributeTypeTerminator>> >>)
    IN  PutAll(raw, << <<48, Usn \o SubSeq(raw, 255, 256)
                                 \o SubSeq(raw, 511, 512)>>,
                       <<254, Usn>>, <<510, Usn>> >>)

\* The record of the volume that dumps: one non-resident $DATA after a
\* $STANDARD_INFORMATION.
GoodLayout ==
    <<CHOOSE a \in AttributeChoices : a.Type = AttributeTypeStandardInformation,
      CHOOSE a \in AttributeChoices : ~a.Resident /\ a.runs = 2>>

\* Damage to a record: none, another signature, an update sequence of one
\* entry (no sector), a torn sector.
RecordDamages ==
    {<<>>, <<0, <<66, 65, 65, 68>>>>, <<6, <<1, 0>>>>, <<510, <<8, 0>>>>}

\* The boot sector of the test for records of 512 bytes (0xF7: 2^9), and
\* its variations: the OEM id, the record size byte (0: no byte, 1: one
\* cluster, more than the volume holds, 0xC1: 2^63) and an $MFT cluster
\* number whose position in bytes is negative as an int64.
DumpBootSector(oem, frs, cluster) ==
    PutAll(TestBootSectorInput \o Fill(512 - 80, 0),
           << <<3, oem>>, <<64, <<frs>>>>, <<48, cluster>> >>)

GoodBootSector ==
    DumpBootSector(supportedOemId, 247, <<0, 0, 12, 0, 0, 0, 0, 0>>)

BootSectorChoices ==
    {DumpBootSector(oem, frs, cluster) :
        oem \in OemIds, frs \in {247, 0, 1, 193},
        cluster \in {<<0, 0, 12, 0, 0, 0, 0, 0>>, <<0, 0, 0, 0, 0, 0, 8, 0>>}}
    \cup {SubSeq(GoodBootSector, 1, 100), <<>>}

\* A volume: its boot sector, the bytes from the $MFT's position on, and
\* what the record there was made of (layout, for the claims only).
Volumes ==
    {[bootSector |-> GoodBootSector, mft |-> MftRecord(layout),
      layout |-> layout, damage |-> <<>>] :
        layout \in SeqsUpTo(AttributeChoices, MaxAttributes)}
    \cup {[bootSector |-> b, mft |-> MftRecord(GoodLayout),
           layout |-> GoodLayout, damage |-> <<>>] : b \in BootSectorChoices}
    \cup {[bootSector |-> GoodBootSector,
           mft |-> IF d = <<>> THEN MftRecord(GoodLayout)
                   ELSE Put(MftRecord(GoodLayout), d[1], d[2]),
           layout |-> GoodLayout, damage |-> d] : d \in RecordDamages}

InitDump ==
    /\ pc = "args"
    /\ nArgs \in {1, 2}
    /\ overwriteOutputIfExists \in BOOLEAN
    /\ volume \in Volumes
    /\ outPath \in {"absent", "old"}
    /\ inFile = "none"
    /\ outFile = "none"
    /\ deferred = <<>>
    /\ bootSectorData = <<>>
    /\ bootSector = <<>>
    /\ mftData = <<>>
    /\ record = <<>>
    /\ dataAttributes = <<>>
    /\ dataRuns = <<>>
    /\ dumpFragments = <<>>
    /\ written = Fill(8, 0)
    /\ exitCode = -1
    /\ ReaderIdle
    /\ DecodeIdle
    /\ RecordIdle
    /\ FixUpIdle
    /\ OutIdle
    /\ WalkIdle
    /\ ShareIdle

NextDump ==
    \/ CheckArgs
    \/ OpenVolume
    \/ ReadBootSector
    \/ ParseBootSector
    \/ CheckOemId
    \/ SeekMft
    \/ ReadRecord
    \/ ParseMftRecord
    \/ FindDataAttributes
    \/ CheckResident
    \/ ParseRuns
    \/ MakeFragments
    \/ OpenOutput
    \/ CopyFragments
    \/ ReturnFromMain

SpecDump == InitDump /\ [][NextDump]_vars

---------------------------------------------------------------------------
(* utf16/decode.go: DecodeString as a step. The call faults when one of    *)
(* its slice expressions b[bi : bi+2] is out of range and has no other way *)
(* to fail: it returns a string only.                                      *)

MaxStringLen == 4

\* How DecodeString(b, bo) ends: "nil" when it returns its string.
DecodeStringErr(b) ==
    LET slen == Len(b) \div 2 IN
    IF \E i \in 0..(slen - 1) : ~InRange(i * 2, i * 2 + 2, Len(b))
    THEN "panic" ELSE "nil"

\* The bytes of "H", of the two halves of U+1F44C and zero.
StringBytes == {0, 72, 61, 216, 76, 220}

StringInputs == SeqsUpTo(StringBytes, MaxStringLen)

DoDecodeString ==
    /\ call = "none"
    /\ call' = "DecodeString"
    /\ dErr' = DecodeStringErr(inBytes)
    /\ dOut' = IF DecodeStringErr(inBytes) = "nil" THEN DecodeString(inBytes)
               ELSE <<>>
    /\ UNCHANGED <<inBytes, inBpc, dRuns, dFrags, dRef, inLen>>
    /\ UNCHANGED readerVars
    /\ UNCHANGED recordVars
    /\ UNCHANGED fixVars
    /\ UNCHANGED dumpVars
    /\ UNCHANGED walkVars
    /\ UNCHANGED shareVars

InitString ==
    /\ inBytes \in StringInputs
    /\ inLen = Len(inBytes)
    /\ inBpc = 1
    /\ call = "none"
    /\ dErr = "nil"
    /\ dRuns = <<>>
    /\ dFrags = <<>>
    /\ dRef = <<>>
    /\ dOut = <<>>
    /\ ReaderIdle
    /\ RecordIdle
    /\ FixUpIdle
    /\ DumpIdle
    /\ WalkIdle
    /\ ShareIdle

NextString == DoDecodeString

SpecString == InitString /\ [][NextString]_vars

---------------------------------------------------------------------------
(* mft/attributes.go: ParseFileName, and the loops of ParseAttributeList   *)
(* and ParseIndexEntries taken one iteration at a step. The slice a call   *)
(* is given has no room beyond its length, and so has every b the loop     *)
(* goes on with: a read beyond len(b) faults.                              *)

MaxWalkElements == 3
MaxIterations == 4

\* ConvertFileTime(timeValue): the first instant of 1601 plus, a hundred
\* times over, int64(timeValue) nanoseconds. A time.Time keeps seconds and
\* nanoseconds apart, so no sum wraps: the instant is timeValue, read as a
\* signed number, in ticks of 100 ns after the start of the year epoch.
ConvertFileTime(timeValue) == [epoch |-> 1601, ticks |-> timeValue]

\* time.Time{}: the first instant of the year 1
ZeroTime == [epoch |-> 1, ticks |-> Fill(8, 0)]

\* FileName{}
EmptyFileName ==
    [ParentFileReference |-> [RecordNumber |-> Fill(8, 0), SequenceNumber |-> 0],
     Creation            |-> ZeroTime,
     FileLastModified    |-> ZeroTime,
     MftLastModified     |-> ZeroTime,
     LastAccess          |-> ZeroTime,
     AllocatedSize       |-> Fill(8, 0),
     ActualSize          |-> Fill(8, 0),
     Flags               |-> Fill(4, 0),
     ExtendedData        |-> Fill(4, 0),
     Namespace           |-> 0,
     Name                |-> <<>>]

\* ParseFileName(b)
ParseFileName(b) ==
    IF Len(b) < 66
    THEN [err |-> "FileNameTooShort", fileName |-> EmptyFileName]
    ELSE LET fileNameLength == b[65] * 2 IN
         IF Len(b) < 66 + fileNameLength
         THEN [err |-> "FileNameTooShort", fileName |-> EmptyFileName]
         ELSE [err |-> "nil",
               fileName |->
                 [ParentFileReference |-> ParseFileReference(Slice(b, 0, 8)).ref,
                  Creation            |-> ConvertFileTime(Uint64(Slice(b, 8, 8))),
                  FileLastModified    |-> ConvertFileTime(Uint64(Slice(b, 16, 8))),
                  MftLastModified     |-> ConvertFileTime(Uint64(Slice(b, 24, 8))),
                  LastAccess          |-> ConvertFileTime(Uint64(Slice(b, 32, 8))),
                  AllocatedSize       |-> Uint64(Slice(b, 40, 8)),
                  ActualSize          |-> Uint64(Slice(b, 48, 8)),
                  Flags               |-> Uint32(Slice(b, 56, 4)),
                  ExtendedData        |-> Uint32(Slice(b, 60, 4)),
                  Namespace           |-> b[66],
                  Name                |-> DecodeString(Slice(b, 66, fileNameLength))]]

\* flags&0b1 != 0, for the 4 bytes of flags
pointsToSubNode(flags) == flags[1] % 2 = 1

\* flags&0b10 != 0, for the 4 bytes of flags
isLastEntryInNode(flags) == (flags[1] \div 2) % 2 = 1

\* An entry loop that reads the $FILE_NAME of every entry that has content.
parsesFileNameAlways(contentLength, isLast) == contentLength # 0

\* contentLength != 0 && !isLastEntryInNode
parsesFileName(contentLength, isLast) == contentLength # 0 /\ ~isLast

\* What one iteration of a loop comes to
WalkPanic == [kind |-> "panic", err |-> "nil", entry |-> <<>>, rest |-> <<>>, last |-> FALSE]
WalkError(e) == [kind |-> "error", err |-> e, entry |-> <<>>, rest |-> <<>>, last |-> FALSE]

\* The body of the loop of ParseIndexEntries on a non-empty b
IndexEntryOf(b) ==
    IF ~InRange(8, 10, Len(b)) THEN WalkPanic
    ELSE LET entryLength == Uint16(Slice(b, 8, 2)) IN
    IF Len(b) < entryLength THEN WalkError("IndexEntryLength")
    ELSE IF ~InRange(12, 16, Len(b)) THEN WalkPanic
    ELSE LET flags == Uint32(Slice(b, 12, 4))
             contentLength == Uint16(Slice(b, 10, 2))
             isLast == isLastEntryInNode(flags)
             named == parsesFileName(contentLength, isLast)
         IN
    IF named /\ ~InRange(16, 16 + contentLength, Len(b)) THEN WalkPanic
    ELSE IF named /\ ParseFileName(Slice(b, 16, contentLength)).err # "nil"
    THEN WalkError("IndexEntryFileName")
    ELSE IF pointsToSubNode(flags) /\ ~InRange(entryLength - 8, entryLength, Len(b))
    THEN WalkPanic
    ELSE [kind  |-> "entry",
          err   |-> "nil",
          entry |-> [FileReference |-> ParseFileReference(Slice(b, 0, 8)).ref,
                     Flags         |-> flags,
                     FileName      |-> IF named
                                       THEN ParseFileName(Slice(b, 16, contentLength)).fileName
                                       ELSE EmptyFileName,
                     SubNodeVCN    |-> IF pointsToSubNode(flags)
                                       THEN Uint64(Slice(b, entryLength - 8, 8))
                                       ELSE Fill(8, 0)],
          rest  |-> ReadFrom(b, entryLength),
          last  |-> isLast]

\* The body of the loop of ParseAttributeList on a non-empty b
AttributeListEntryOf(b) ==
    IF ~InRange(4, 6, Len(b)) THEN WalkPanic
    ELSE LET entryLength == Uint16(Slice(b, 4, 2)) IN
    IF Len(b) < entryLength THEN WalkError("AttributeListEntryLength")
    ELSE IF ~InRange(6, 7, Len(b)) THEN WalkPanic
    ELSE LET nameLength == b[7] IN
    IF nameLength # 0 /\ ~InRange(7, 8, Len(b)) THEN WalkPanic
    ELSE IF nameLength # 0 /\ ~InRange(b[8], b[8] + nameLength * 2, Len(b))
    THEN WalkPanic
    ELSE IF ~InRange(24, 26, Len(b)) THEN WalkPanic
    ELSE [kind  |-> "entry",
          err   |-> "nil",
          entry |-> [Type                |-> Uint32(Slice(b, 0, 4)),
                     Name                |-> IF nameLength # 0
                                             THEN DecodeString(Slice(b, b[8], nameLength * 2))
                                             ELSE <<>>,
                     StartingVCN         |-> Uint64(Slice(b, 8, 8)),
                     BaseRecordReference |-> ParseFileReference(Slice(b, 16, 8)).ref,
                     AttributeId         |-> Uint16(Slice(b, 24, 2))],
          rest  |-> ReadFrom(b, entryLength),
          last  |-> FALSE]

\* The length check that opens ParseIndexEntries (13) and
\* ParseAttributeList (26)
EnterWalk(name, least) ==
    /\ walkPc = "call"
    /\ walkCall = name
    /\ IF Len(walkB) < least
       THEN walkPc' = "returned" /\ walkErr' = "TooShort"
       ELSE walkPc' = "loop" /\ walkErr' = "nil"
    /\ UNCHANGED <<walkCall, walkIn, walkB, walkEntries>>
    /\ UNCHANGED readerVars
    /\ UNCHANGED decodeVars
    /\ UNCHANGED recordVars
    /\ UNCHANGED fixVars
    /\ UNCHANGED outVars
    /\ UNCHANGED dumpVars
    /\ UNCHANGED shareVars

\* One test of the loop condition and, when it holds, one run of the body
WalkIteration(name, step) ==
    /\ walkPc = "loop"
    /\ walkCall = name
    /\ Len(walkEntries) < MaxIterations
    /\ IF walkB = <<>>
       THEN /\ walkPc' = "returned"
            /\ UNCHANGED <<walkB, walkEntries, walkErr>>
       ELSE CASE step.kind = "panic" ->
                   /\ walkPc' = "panic"
                   /\ UNCHANGED <<walkB, walkEntries, walkErr>>
              [] step.kind = "error" ->
                   /\ walkPc' = "returned"
                   /\ walkErr' = step.err
                   /\ UNCHANGED <<walkB, walkEntries>>
              [] step.kind = "entry" ->
                   /\ walkEntries' = Append(walkEntries, step.entry)
                   /\ walkB' = step.rest
                   /\ walkPc' = IF step.last THEN "returned" ELSE "loop"
                   /\ UNCHANGED walkErr
    /\ UNCHANGED <<walkCall, walkIn>>
    /\ UNCHANGED readerVars
    /\ UNCHANGED decodeVars
    /\ UNCHANGED recordVars
    /\ UNCHANGED fixVars
    /\ UNCHANGED outVars
    /\ UNCHANGED dumpVars
    /\ UNCHANGED shareVars

CallParseIndexEntries == EnterWalk("ParseIndexEntries", 13)

IterateParseIndexEntries ==
    WalkIteration("ParseIndexEntries", IndexEntryOf(walkB))

CallParseAttributeList == EnterWalk("ParseAttributeList", 26)

IterateParseAttributeList ==
    WalkIteration("ParseAttributeList", AttributeListEntryOf(walkB))

\* An index entry: file reference, entryLength, contentLength, flags and
\* what follows the 16 bytes of the header
IndexEntryBytes(fileReference, entryLength, contentLength, flags, body) ==
    fileReference \o IntToWord(entryLength, 2) \o IntToWord(contentLength, 2)
        \o <<flags, 0, 0, 0>> \o body

\* The $FILE_NAME of the first entry of TestParseIndexRoot, the name cut
\* down to its first letter: 68 bytes
TestFileNameContent ==
    <<57, 140, 6, 0, 0, 0, 59, 0>>
        \o <<222, 62, 241, 226, 52, 220, 213, 1>>
        \o <<222, 62, 241, 226, 52, 220, 213, 1>>
        \o <<24, 219, 210, 227, 52, 220, 213, 1>>
        \o <<222, 62, 241, 226, 52, 220, 213, 1>>
        \o Fill(8, 0) \o Fill(8, 0)
        \o <<32, 0, 0, 0>> \o <<0, 0, 0, 0>>
        \o <<1, 3>> \o <<116, 0>>

TestFileReference == <<95, 172, 6, 0, 0, 0, 6, 0>>

\* Pieces of index entry streams: a named entry, the last entry of the
\* test, a last entry with a $FILE_NAME as content, a last entry with
\* content that is no $FILE_NAME, the same that
\* also points to a sub-node, an entry without content, one that points to
\* a sub-node, one with content that is no $FILE_NAME, one of length 0, and
\* bytes too few for an entry.
IndexElements ==
    {IndexEntryBytes(TestFileReference, 88, 68, 0, TestFileNameContent \o Fill(4, 0)),
     IndexEntryBytes(Fill(8, 0), 16, 0, 2, <<>>),
     IndexEntryBytes(TestFileReference, 88, 68, 2, TestFileNameContent \o Fill(4, 0)),
     IndexEntryBytes(TestFileReference, 24, 8, 2, <<1, 2, 3, 4, 5, 6, 7, 8>>),
     IndexEntryBytes(TestFileReference, 32, 8, 3, <<1, 2, 3, 4, 5, 6, 7, 8>> \o <<9, 0, 0, 0, 0, 0, 0, 0>>),
     IndexEntryBytes(TestFileReference, 16, 0, 0, <<>>),
     IndexEntryBytes(TestFileReference, 24, 0, 1, <<7, 0, 0, 0, 0, 0, 0, 0>>),
     IndexEntryBytes(TestFileReference, 24, 8, 0, <<1, 2, 3, 4, 5, 6, 7, 8>>),
     IndexEntryBytes(TestFileReference, 0, 0, 0, <<>>),
     <<1, 2, 3>>}

\* An attribute list entry: type, entryLength, nameLength, nameOffset and
\* what follows the 26 bytes of the fixed part
AttributeListEntryBytes(type, entryLength, nameLength, nameOffset, body) ==
    <<type, 0, 0, 0>> \o IntToWord(entryLength, 2) \o <<nameLength, nameOffset>>
        \o <<186, 236, 1, 0, 0, 0, 0, 0>> \o <<186, 236, 1, 0, 0, 0, 0, 0>>
        \o <<5, 0>> \o body

\* Pieces of attribute lists: an entry without a name, one with a name, one
\* of 26 bytes, one of length 0, and bytes too few for an entry.
AttributeListElements ==
    {AttributeListEntryBytes(128, 32, 0, 26, Fill(6, 0)),
     AttributeListEntryBytes(48, 32, 1, 26, <<116, 0>> \o Fill(4, 0)),
     AttributeListEntryBytes(16, 26, 0, 26, <<>>),
     AttributeListEntryBytes(128, 0, 0, 26, Fill(6, 0)),
     <<1, 2, 3>>}

WalkInputs(name) ==
    {Flatten(ss) : ss \in SeqsUpTo(IF name = "ParseIndexEntries"
                                   THEN IndexElements
                                   ELSE AttributeListElements,
                                   MaxWalkElements)}

InitWalk ==
    /\ walkCall \in {"ParseIndexEntries", "ParseAttributeList"}
    /\ walkIn \in WalkInputs(walkCall)
    /\ walkPc = "call"
    /\ walkB = walkIn
    /\ walkEntries = <<>>
    /\ walkErr = "nil"
    /\ ReaderIdle
    /\ DecodeIdle
    /\ RecordIdle
    /\ FixUpIdle
    /\ OutIdle
    /\ DumpIdle
    /\ ShareIdle

NextWalk ==
    \/ CallParseIndexEntries
    \/ IterateParseIndexEntries
    \/ CallParseAttributeList
    \/ IterateParseAttributeList

SpecWalk == InitWalk /\ [][NextWalk]_vars

---------------------------------------------------------------------------
(* Claims about the Reader *)

RECURSIVE SumLengths(_)
SumLengths(frags) ==
    IF frags = <<>> THEN 0 ELSE Head(frags).Length + SumLengths(Tail(frags))

\* S[F[1].Offset .. F[1].Offset + F[1].Length) \o S[F[2].Offset ..) \o ...
RECURSIVE ConcatFragments(_, _)
ConcatFragments(s, frags) ==
    IF frags = <<>> THEN <<>>
    ELSE SubSeq(s, Head(frags).Offset + 1, Head(frags).Offset + Head(frags).Length)
         \o ConcatFragments(s, Tail(frags))

FragsInside ==
    \A i \in 1..Len(fragments) :
        fragments[i].Offset + fragments[i].Length <= Len(src)

IsPrefix(a, b) == Len(a) <= Len(b) /\ a = SubSeq(b, 1, Len(a))

\* C1: over a sound source and fragments that lie inside it, the bytes
\* returned so far are always a prefix of the concatenation of the fragments'
\* slices in list order, and once Read has returned io.EOF they are exactly
\* that concatenation, whatever the order or overlap of the offsets.
C1_ReadsConcatenation ==
    (srcMode = "ok" /\ FragsInside) =>
        /\ IsPrefix(out, ConcatFragments(src, fragments))
        /\ rerr = "EOF" => out = ConcatFragments(src, fragments)

\* Two overlapping fragments, the second starting before the first, read to
\* io.EOF.
C1_Witness ==
    /\ srcMode = "ok" /\ FragsInside /\ rerr = "EOF"
    /\ Len(fragments) = 2
    /\ fragments[2].Offset < fragments[1].Offset
    /\ fragments[2].Offset + fragments[2].Length > fragments[1].Offset
    /\ Len(out) >= 3

\* C2: once a Read has failed on its Seek, every later Read with a
\* non-empty buffer fails too and returns no bytes.
C2_SeekErrorsPermanent ==
    [][(seekFailed /\ rlen' > 0) => (rn' = 0 /\ rerr' # "nil")]_vars

\* C3: Read returns io.EOF only when the bytes returned so far number the
\* sum of all fragment lengths.
C3_EOFOnlyWhenConsumed ==
    rerr = "EOF" => Len(out) = SumLengths(fragments)

\* The bytes left in the fragment a Read step works on: the fragment's full
\* Length when the step has just entered it.
RemainingBefore ==
    IF idx' # idx /\ idx' < Len(fragments)
    THEN fragments[idx' + 1].Length ELSE remaining

\* Where the source stands when the step reads: the fragment's Offset when
\* the step has just entered it.
PosBefore ==
    IF idx' # idx /\ idx' < Len(fragments)
    THEN fragments[idx' + 1].Offset ELSE srcPos

SourceSupplies ==
    /\ rerr' \notin {"SeekError", "SeekMismatch"}
    /\ PosBefore + Min(rlen', RemainingBefore) <= Len(src)

C4_Step ==
    /\ rn' <= RemainingBefore
    /\ remaining' = RemainingBefore - rn'
    /\ SourceSupplies => rn' = Min(rlen', RemainingBefore)
    /\ Len(out') = Len(out) + rn'
    /\ idx' \in {idx, idx + 1}
    /\ idx' = idx + 1 => remaining = 0
    /\ \A i \in 1..Len(fragments) :
          fragOut'[i] = fragOut[i] + (IF i = idx' + 1 THEN rn' ELSE 0)

C4_Order ==
    \A i \in 1..Len(fragments) :
        /\ i - 1 > idx => fragOut[i] = 0
        /\ i - 1 = idx => fragOut[i] + remaining = fragments[i].Length
        /\ i - 1 < idx => fragOut[i] = fragments[i].Length

\* C4: a Read returns at most the bytes remaining in the current fragment,
\* exactly min(len(p), remaining) of them when the source supplies them,
\* remaining drops by what it returned, all its bytes belong to the current
\* fragment, and a fragment yields bytes only after every earlier fragment
\* has been returned in full by earlier calls.
C4_StaysInsideOneFragment == []C4_Order /\ [][C4_Step]_vars

\* A Read asked for two bytes at the last byte of fragment 0 and got one,
\* although fragment 1 follows.
C4_Witness ==
    /\ srcMode = "ok" /\ Len(fragments) = 2
    /\ idx = 0 /\ remaining = 0
    /\ rlen = 2 /\ rn = 1 /\ rerr = "nil"
    /\ fragments[2].Length > 0

Exhausted == remaining = 0 /\ idx >= Len(fragments) - 1

C5_LastRead ==
    (rn > 0 /\ remaining = 0 /\ idx = Len(fragments) - 1) => rerr = "nil"

C5_AfterLast ==
    (Exhausted /\ rlen' > 0) =>
        /\ rn' = 0 /\ rerr' = "EOF"
        /\ idx' = Len(fragments) /\ remaining' = 0
        /\ srcPos' = srcPos /\ out' = out

C5_Sticky ==
    idx >= Len(fragments) =>
        /\ rn' = 0 /\ rerr' = "EOF"
        /\ UNCHANGED <<idx, remaining, srcPos, out>>

\* C5: the Read that returns the last byte of the last fragment has a nil
\* error; from then on (and from the start, over an empty list) a Read with
\* a non-empty buffer returns (0, io.EOF) and leaves the source alone; once
\* the index is past the last fragment every Read returns (0, io.EOF) and
\* changes neither the index, the remaining count nor the source.
C5_EOFAfterLastFragment ==
    []C5_LastRead /\ [][C5_AfterLast /\ C5_Sticky]_vars

\* io.EOF after a last fragment that was read to its last byte.
C5_Witness ==
    /\ rerr = "EOF" /\ rlen > 0 /\ idx = Len(fragments)
    /\ Len(fragments) = 2 /\ fragments[2].Length > 0
    /\ fragOut[2] = fragments[2].Length
    /\ fragments[2].Offset + fragments[2].Length = Len(src)

\* C21: a Read with an empty buffer on a Reader whose index is not past
\* the last fragment returns (0, nil) and changes nothing a later Read
\* depends on: no Seek and no read on the source (its position stays),
\* the index and the remaining count stay, nothing is delivered.
C21_EmptyReadNoEffect ==
    [][(rlen' = 0 /\ idx < Len(fragments))
          => /\ rn' = 0
             /\ rerr' = "nil"
             /\ UNCHANGED <<src, srcMode, srcPos, fragments, idx, remaining,
                            out, fragOut, seekFailed>>]_vars

\* An empty Read in the middle of a fragment, and one between two
\* fragments, after bytes were delivered.
C21_Witness ==
    /\ rlen = 0
    /\ rn = 0
    /\ rerr = "nil"
    /\ out # <<>>
    /\ idx = 0
    /\ remaining = 0
    /\ Len(fragments) = 2

\* C25: over fragments of non-negative lengths, whatever Reads were made,
\* failed ones among them: -1 <= idx <= len(fragments) and idx never
\* decreases; remaining is 0 when idx is -1 or len(fragments) and is
\* otherwise between 0 and the length of fragment idx.
C25_ReaderState ==
    /\ [](/\ -1 <= idx /\ idx <= Len(fragments)
          /\ (idx = -1 \/ idx = Len(fragments)) => remaining = 0
          /\ (0 <= idx /\ idx < Len(fragments))
                => (0 <= remaining /\ remaining <= fragments[idx + 1].Length))
    /\ [][idx' >= idx]_vars

\* After a failed seek into the first fragment and later Reads, the Reader
\* is part-way through the second of two fragments.
C25_Witness ==
    /\ seekFailed
    /\ Len(fragments) = 2
    /\ idx = 1
    /\ fragments[2].Length = 2
    /\ remaining = 1
    /\ rn = 1

\* The last byte delivered lies outside the fragment the Reader is in: the
\* bytes of the source name their positions.
LastByteOutsideFragment ==
    /\ out # <<>>
    /\ 0 <= idx /\ idx < Len(fragments)
    /\ LET at == out[Len(out)] - SourceBytes[1]
           frag == fragments[idx + 1]
       IN  at < frag.Offset \/ at >= frag.Offset + frag.Length

\* C26: a Read goes to the next fragment only when nothing remains of the
\* current one, and seeks then, once; a Read that stays in its fragment
\* does not seek: it reads from wherever the source position is, also after
\* another party has moved it, and its result and error are those of the
\* source alone.
C26_SeeksOncePerFragment ==
    [][(moves' = moves /\ rlen' > 0 /\ idx < Len(fragments)) =>
          /\ idx' # idx => (remaining = 0 /\ idx' = idx + 1)
          /\ (idx' = idx + 1 /\ idx' < Len(fragments) /\ ~seekFailed') =>
                LET next == fragments[idx' + 1]
                    r == ReadFull(src, next.Offset, TargetLen(rlen', next.Length))
                IN  /\ rn' = r.n /\ rerr' = r.err
                    /\ srcPos' = next.Offset + rn'
                    /\ out' = out \o SubSeq(src, next.Offset + 1, next.Offset + rn')
          /\ idx' = idx =>
                LET r == ReadFull(src, srcPos, TargetLen(rlen', remaining))
                IN  /\ rn' = r.n /\ rerr' = r.err
                    /\ srcPos' = srcPos + rn'
                    /\ out' = out \o SubSeq(src, srcPos + 1, srcPos + rn')]_vars

\* After a move by another party, a Read in the same fragment has returned,
\* without error, a byte that is not of the fragment.
C26_Witness ==
    /\ moves = 1
    /\ rerr = "nil"
    /\ rn = 1
    /\ idx = 0
    /\ fragOut[1] = 2
    /\ LastByteOutsideFragment
    /\ ~seekFailed

---------------------------------------------------------------------------
(* Claims about the decoders *)

\* Exact integers: 16-byte words, wide enough that no sum or product of
\* the values below wraps.
WideLen == 8 + 8

SignExtend(w, n) ==
    w \o Fill(n - Len(w), IF w # <<>> /\ w[Len(w)] >= 128 THEN 255 ELSE 0)

ZeroExtend(w, n) == w \o Fill(n - Len(w), 0)

\* Whether the exact integer x is an int64.
FitsInt64(x) == x = SignExtend(SubSeq(x, 1, 8), WideLen)

\* The integer a word stands for, unsigned and signed, when below 2^31.
RECURSIVE WordToNat(_)
WordToNat(w) ==
    IF w = <<>> \/ w = Fill(Len(w), 0) THEN 0
    ELSE Head(w) + 256 * WordToNat(Tail(w))

WordToInt(w) ==
    IF w[Len(w)] >= 128
    THEN -(WordToNat([i \in 1..Len(w) |-> 255 - w[i]]) + 1)
    ELSE WordToNat(w)

\* R[1].OffsetCluster + ... + R[i].OffsetCluster, exactly.
RECURSIVE ExactClusterSum(_, _)
ExactClusterSum(runs, i) ==
    IF i = 0 THEN Fill(WideLen, 0)
    ELSE AddW(ExactClusterSum(runs, i - 1),
              SignExtend(runs[i].OffsetCluster, WideLen))

\* w * k for an integer k < 2^16, on a word wide enough not to wrap.
Times(w, k) == MulByte(w, k, 0)

ExactOffset(runs, bpc, i) == Times(ExactClusterSum(runs, i), bpc)

ExactLength(runs, bpc, i) ==
    Times(ZeroExtend(runs[i].LengthInClusters, WideLen), bpc)

\* bpc * (R[1].LengthInClusters + ... + R[i].LengthInClusters), exactly.
RECURSIVE ExactLengthSum(_, _, _)
ExactLengthSum(runs, bpc, i) ==
    IF i = 0 THEN Fill(WideLen, 0)
    ELSE AddW(ExactLengthSum(runs, bpc, i - 1), ExactLength(runs, bpc, i))

\* frags[1].Length + ... + frags[i].Length, exactly.
RECURSIVE FragmentLengthSum(_, _)
FragmentLengthSum(frags, i) ==
    IF i = 0 THEN Fill(WideLen, 0)
    ELSE AddW(FragmentLengthSum(frags, i - 1),
              SignExtend(frags[i].Length, WideLen))

OffsetExact(i) ==
    SignExtend(dFrags[i].Offset, WideLen) = ExactOffset(dRuns, inBpc, i)

LengthExact(i) ==
    SignExtend(dFrags[i].Length, WideLen) = ExactLength(dRuns, inBpc, i)

\* Offset_1 = bpc * R[1].OffsetCluster and
\* Offset_i = Offset_(i-1) + bpc * R[i].OffsetCluster, exactly.
OffsetRecurrence(i) ==
    SignExtend(dFrags[i].Offset, WideLen) =
        AddW(IF i = 1 THEN Fill(WideLen, 0)
             ELSE SignExtend(dFrags[i - 1].Offset, WideLen),
             Times(SignExtend(dRuns[i].OffsetCluster, WideLen), inBpc))

LengthSumExact ==
    FragmentLengthSum(dFrags, Len(dFrags)) =
        ExactLengthSum(dRuns, inBpc, Len(dRuns))

RECURSIVE RunFields(_)
RunFields(b) ==
    IF b = <<>> THEN <<>>
    ELSE IF b[1] = 0 \/ Len(b) < 1 + (b[1] % 16) + (b[1] \div 16) THEN <<>>
    ELSE LET ll == b[1] % 16
             ol == b[1] \div 16
         IN  <<[lengthBytes |-> SubSeq(b, 2, 1 + ll),
                offsetBytes |-> SubSeq(b, 2 + ll, 1 + ll + ol)]>>
             \o RunFields(SubSeq(b, 2 + ll + ol, Len(b)))

RunsParsed ==
    /\ call \in {"ParseDataRuns", "DataRunsToFragments"}
    /\ dErr = "nil"

\* C7: a run's 1 to 8 length bytes decode as an unsigned little-endian
\* integer: LengthInClusters is those bytes followed by zero bytes.
C7_LengthZeroExtended ==
    RunsParsed =>
        \A i \in 1..Len(dRuns) :
            LET lb == RunFields(inBytes)[i].lengthBytes
            IN  Len(lb) \in 1..8 =>
                    dRuns[i].LengthInClusters = ZeroExtend(lb, 8)

\* C8: a run's 1 to 8 offset bytes decode as a signed little-endian
\* integer: with the top bit of the last byte set OffsetCluster is negative,
\* is the unsigned value minus 2^(8k) (0xFF in every byte above the field)
\* and is at least -2^(8k-1); with the top bit clear it is the zero-extended
\* value. For fields of up to 3 bytes the same in numbers.
C8_OffsetSignExtended ==
    RunsParsed =>
        \A i \in 1..Len(dRuns) :
            LET ob == RunFields(inBytes)[i].offsetBytes
                k  == Len(ob)
                v  == dRuns[i].OffsetCluster
            IN  k \in 1..8 =>
                  IF ob[k] >= 128
                  THEN /\ v = ob \o Fill(8 - k, 255)
                       /\ v[8] >= 128
                       /\ k <= 3 =>
                            /\ WordToInt(v) = WordToNat(ob) - 256^k
                            /\ WordToInt(v) >= -(256^k \div 2)
                            /\ WordToInt(v) < 0
                  ELSE /\ v = ZeroExtend(ob, 8)
                       /\ v[8] < 128
                       /\ k <= 3 => WordToInt(v) = WordToNat(ob)

\* The third run of TestParseDataRuns: offset bytes 6f ed b1 decode to
\* -5116561.
C8_Witness ==
    /\ RunsParsed
    /\ inBytes = TestDataRunsInput
    /\ Len(dRuns) = 6
    /\ RunFields(inBytes)[3].offsetBytes = <<111, 237, 177>>
    /\ dRuns[3].OffsetCluster = IntToWord(-5116561, 8)
    /\ dRuns[1].OffsetCluster = IntToWord(786432, 8)

\* C9: on 8 bytes ParseFileReference returns the bytes 0..5 zero-extended
\* as RecordNumber (so below 2^48) and the bytes 6..7 as SequenceNumber; any
\* other length is an error.
C9_RecordNumberUnsigned48 ==
    call = "ParseFileReference" =>
        IF Len(inBytes) = 8
        THEN /\ dErr = "nil"
             /\ dRef.RecordNumber = SubSeq(inBytes, 1, 6) \o <<0, 0>>
             /\ dRef.SequenceNumber = inBytes[7] + 256 * inBytes[8]
        ELSE dErr # "nil"

---------------------------------------------------------------------------
(* Claims about ParseRecord *)

\* C10: ParseRecord never modifies the caller's buffer: after any number of
\* calls, returning a Record, an error or faulting, every byte of the buffer
\* is what it was before the first call, and every later call returns what
\* the first one returned.
C10_CallerBufferUnchanged ==
    /\ callerBuf = callerBuf0
    /\ pCalls >= 2 => pOut = pFirst

\* The pristine record parsed twice: both calls return the Record with its
\* one attribute, the private copy has had its three trailers replaced and
\* the caller's buffer still ends its sectors with the update sequence
\* number.
C10_Witness ==
    /\ pCalls = 2
    /\ callerBuf0 = PristineRecord
    /\ pOut.err = "nil"
    /\ pFirst.err = "nil"
    /\ Len(pOut.rec.Attributes) = 1
    /\ pOut.rec.Attributes[1].Data = <<49, 50, 51, 52, 53, 54, 55, 56>>
    /\ Slice(privateBuf, 94, 2) = <<171, 205>>
    /\ Slice(privateBuf, 62, 2) = <<0, 0>>
    /\ Slice(callerBuf, 94, 2) = Usn
    /\ Slice(callerBuf, 62, 2) = Usn
    /\ privateBuf # callerBuf

\* The header fields of the buffer handed to ParseRecord.
FirstAttributeOffsetOf(buf) == Uint16(Slice(buf, 20, 2))
UpdateSequenceOffsetOf(buf) == Uint16(Slice(buf, 4, 2))
UpdateSequenceSizeOf(buf) == Uint16(Slice(buf, 6, 2))

\* Every sector of the record buf ends with the update sequence number its
\* header points at.
RecordTrailersMatch(buf) ==
    LET uso == UpdateSequenceOffsetOf(buf)
        sectorCount == UpdateSequenceSizeOf(buf) - 1
    IN  /\ sectorCount >= 1
        /\ uso + 2 <= Len(buf)
        /\ \A i \in 1..sectorCount :
              LET at == (Len(buf) \div sectorCount) * i - 2
              IN  /\ InRange(at, at + 2, Len(buf))
                  /\ Slice(buf, at, 2) = Slice(buf, uso, 2)

\* C13: when ParseRecord returns a Record, its signature is "FILE", the
\* first attribute offset of the buffer is at least 42 and below the
\* buffer's length, and every sector of the buffer ended with the update
\* sequence number.
C13_SuccessInvariants ==
    (pCalls >= 1 /\ pOut.err = "nil") =>
        /\ pOut.rec.Signature = fileSignature
        /\ Slice(callerBuf0, 0, 4) = fileSignature
        /\ FirstAttributeOffsetOf(callerBuf0) >= 42
        /\ FirstAttributeOffsetOf(callerBuf0) < Len(callerBuf0)
        /\ RecordTrailersMatch(callerBuf0)

\* C14: on a buffer of at least 42 bytes that starts with "FILE",
\* ParseRecord returns a Record or an error and never faults, whatever the
\* update sequence offset and size are.
C14_NeverFaults ==
    (pCalls >= 1 /\ Len(callerBuf0) >= 42
        /\ Slice(callerBuf0, 0, 4) = fileSignature)
    => pOut.err # "panic"

---------------------------------------------------------------------------
(* Claims about applyFixUp *)

\* The update sequence handed to applyFixUp names at least one sector and
\* lies inside the buffer, number and array.
UpdateSequenceInside ==
    /\ fixLength >= 2
    /\ fixOffset + 2 * fixLength <= Len(fixBuf0)

\* Where the last two bytes of sector i (1..sectorCount) start.
TrailerAt(i) == (Len(fixBuf0) \div (fixLength - 1)) * i - 2

\* Every sector of buf ends with the update sequence number of buf.
TrailersMatch(buf) ==
    \A i \in 1..(fixLength - 1) :
        Slice(buf, TrailerAt(i), 2) = Slice(buf, fixOffset, 2)

\* buf with the trailer of every sector i replaced by pair i - 1 of the
\* update sequence array of buf, and no other byte changed.
TrailersRestored(buf) ==
    [k \in 1..Len(buf) |->
        IF \E i \in 1..(fixLength - 1) : k - 1 \in {TrailerAt(i), TrailerAt(i) + 1}
        THEN LET i == CHOOSE j \in 1..(fixLength - 1) :
                          k - 1 \in {TrailerAt(j), TrailerAt(j) + 1}
             IN  Slice(buf, fixOffset + 2 + 2 * (i - 1), 2)[k - TrailerAt(i)]
        ELSE buf[k]]

\* C11: with an update sequence of s - 1 >= 1 sectors inside the buffer,
\* fix-up succeeds exactly when every sector's last two bytes equal the
\* update sequence number; on success the trailer of sector i holds pair
\* i - 1 of the update sequence array and no other byte has changed; when a
\* trailer differs the error is FixUpMismatch.
C11_FixUpRestoresTrailers ==
    (Len(fixHist) >= 1 /\ UpdateSequenceInside) =>
        /\ fixHist[1].err = "nil" <=> TrailersMatch(fixBuf0)
        /\ fixHist[1].err = "nil" => fixHist[1].b = TrailersRestored(fixBuf0)
        /\ ~TrailersMatch(fixBuf0) => fixHist[1].err = "FixUpMismatch"

UpdateSequenceClearOfTrailers ==
    \A i \in 1..(fixLength - 1) :
        \/ TrailerAt(i) + 2 <= fixOffset
        \/ TrailerAt(i) >= fixOffset + 2 * fixLength

SomePairDiffers ==
    \E i \in 1..(fixLength - 1) :
        Slice(fixBuf0, fixOffset + 2 * i, 2) # Slice(fixBuf0, fixOffset, 2)

FixUpGiven(k) == IF k = 1 THEN fixBuf0 ELSE fixHist[k - 1].b

\* C27: an application of applyFixUp that fails with an update sequence
\* mismatch, at whatever sector, leaves every byte of the buffer as it was.
C27_MismatchWritesNothing ==
    \A k \in 1..Len(fixHist) :
        fixHist[k].err = "FixUpMismatch" => fixHist[k].b = FixUpGiven(k)

\* Two sectors of 5 bytes: the trailer of the first holds the update
\* sequence number and its pair of the array differs from it, the trailer
\* of the second does not verify.
C27_Witness ==
    /\ Len(fixHist) >= 1
    /\ fixHist[1].err = "FixUpMismatch"
    /\ fixHist[1].b = fixBuf0
    /\ Len(fixBuf0) = 10
    /\ fixOffset = 0
    /\ fixLength = 3
    /\ Slice(fixBuf0, 3, 2) = Slice(fixBuf0, 0, 2)
    /\ Slice(fixBuf0, 2, 2) # Slice(fixBuf0, 0, 2)
    /\ Slice(fixBuf0, 8, 2) # Slice(fixBuf0, 0, 2)
---------------------------------------------------------------------------
(* Claims about ParseAttribute and the stream decoders *)

\* A range of the attribute header handed to ParseAttribute lies, in part,
\* beyond the slice: the name, the resident payload, the non-resident
\* fields at 0x20, 0x28 and 0x30, or the non-resident data offset.
NameBeyondSlice ==
    /\ inBytes[10] # 0
    /\ Uint16(Slice(inBytes, 10, 2)) + 2 * inBytes[10] > inLen

PayloadBeyondSlice ==
    /\ inBytes[9] = 0
    /\ Uint16(Slice(inBytes, 20, 2)) + IntOf(Uint32(Slice(inBytes, 16, 4))) > inLen

NonResidentFieldsBeyondSlice ==
    /\ inBytes[9] # 0
    /\ inLen < 56

NonResidentDataBeyondSlice ==
    /\ inBytes[9] # 0
    /\ inLen >= 34
    /\ Uint16(Slice(inBytes, 32, 2)) > inLen

\* C15: on a slice of at least 22 bytes ParseAttribute never faults, and
\* when one of these ranges lies beyond the slice it returns an error: it
\* neither reads past the slice nor returns an attribute.
C15_BoundsChecked ==
    (call = "ParseAttribute" /\ inLen >= 22) =>
        /\ dErr # "panic"
        /\ ( \/ NameBeyondSlice
             \/ PayloadBeyondSlice
             \/ NonResidentFieldsBeyondSlice
             \/ NonResidentDataBeyondSlice ) => dErr # "nil"

\* The data runs of b up to, and without, the first run that is cut short
\* or the end of the list.
RECURSIVE RunsDecodedBefore(_)
RunsDecodedBefore(b) ==
    IF b = <<>> \/ b[1] = 0 THEN <<>>
    ELSE LET size == 1 + (b[1] % 16) + (b[1] \div 16)
         IN  IF Len(b) < size THEN <<>>
             ELSE ParseDataRuns(SubSeq(b, 1, size)).runs
                  \o RunsDecodedBefore(SubSeq(b, size + 1, Len(b)))

\* The attributes of b up to, and without, the first malformed element or
\* the terminator.
RECURSIVE AttributesDecodedBefore(_)
AttributesDecodedBefore(b) ==
    IF Len(b) < 8 \/ Uint32(Slice(b, 0, 4)) = AttributeTypeTerminator THEN <<>>
    ELSE LET recordLength == IntOf(Uint32(Slice(b, 4, 4)))
         IN  IF recordLength <= 0 \/ recordLength > Len(b) THEN <<>>
             ELSE LET parsed == ParseAttributeIn(b, recordLength)
                  IN  IF parsed.err # "nil" THEN <<>>
                      ELSE <<parsed.attribute>>
                           \o AttributesDecodedBefore(
                                  SubSeq(b, recordLength + 1, Len(b)))

\* C16: when ParseAttributes or ParseDataRuns returns an error, the list it
\* returns with it holds the elements decoded before the malformed one.
C16_PartialListWithError ==
    /\ (call = "ParseDataRuns" /\ dErr # "nil") =>
            dRuns = RunsDecodedBefore(inBytes)
    /\ (call = "ParseAttributes" /\ dErr # "nil") =>
            dOut = AttributesDecodedBefore(inBytes)


---------------------------------------------------------------------------
(* Claims about mftdump *)

\* The $DATA attributes of the record the volume holds, in their order.
DataAttributesOf(v) ==
    SelectSeq(v.layout, LAMBDA a : a.Type = AttributeTypeData)

\* The record holds exactly one $DATA attribute, non-resident, whose run
\* list holds a run.
Dumpable(v) ==
    LET d == DataAttributesOf(v)
    IN  Len(d) = 1 /\ ~d[1].Resident /\ d[1].runs > 0

\* main is at the copy (main.go, line 143) or beyond it, or a byte has
\* been written.
CopyPhaseReached ==
    \/ pc \in {"copy", "return"}
    \/ written # Fill(8, 0)
    \/ (pc = "exited" /\ exitCode = 0)

\* C17: mftdump reaches the copy phase only if the $MFT record holds
\* exactly one $DATA attribute, that attribute is non-resident and its run
\* list is not empty; with no $DATA attribute, more than one, a resident
\* one or no data run it ends with an error status, no byte copied.
C17_CopyOnlyOneNonResidentData ==
    /\ pc # "idle" /\ CopyPhaseReached => Dumpable(volume)
    /\ pc = "exited" /\ ~Dumpable(volume)
           => /\ exitCode > 0
              /\ written = Fill(8, 0)
              /\ outFile = "none"

\* The record with a $STANDARD_INFORMATION and one non-resident $DATA of
\* two runs has been copied in full.
C17_Witness ==
    /\ pc = "return"
    /\ Len(volume.layout) = 2
    /\ Dumpable(volume)
    /\ Len(dataRuns) = 2
    /\ written = TotalLength(dumpFragments)
    /\ written # Fill(8, 0)

\* main has begun to parse what it read (bootsect.Parse, main.go line 75)
\* and has not ended.
ParsingBegun ==
    pc \in {"Parse", "OemId", "Seek", "ReadRecord", "ParseRecord",
            "FindAttributes", "Resident", "ParseDataRuns",
            "DataRunsToFragments", "openOutputFile", "copy", "return"}

\* C18: in mftdump the volume handle and the output sink are both acquired
\* before parsing begins, and however main ends, every handle it acquired
\* has been closed by then.
C18_HandlesAcquiredFirstAndReleased ==
    /\ ParsingBegun => inFile # "none" /\ outFile # "none"
    /\ pc = "exited" => inFile # "open" /\ outFile # "open"

\* The output path has been created, or truncated, by this run.
OutputTouched == outPath \in {"created", "truncated"}

\* What the volume holds passes every check of main: the boot sector of an
\* NTFS volume, an $MFT record that parses, and in it one $DATA attribute,
\* non-resident, with a run.
VolumeValid(v) ==
    /\ v.bootSector = GoodBootSector
    /\ v.damage = <<>>
    /\ Dumpable(v)

\* C30: mftdump creates the output file, or truncates it, only in
\* openOutputFile and only when the boot sector, the OEM id, the $MFT record,
\* the $DATA attribute and the data runs have all passed their checks; when
\* main ends before that, the output path is as it was.
C30_OutputOnlyAfterValidation ==
    /\ [](OutputTouched =>
            /\ VolumeValid(volume)
            /\ pc \in {"copy", "return", "exited"}
            /\ bootSector # <<>>
            /\ record # <<>>
            /\ Len(dataAttributes) = 1
            /\ Len(dataRuns) > 0)
    /\ []((pc = "exited" /\ outFile = "none") => ~OutputTouched)
    /\ [][outPath' # outPath => (pc = "openOutputFile" /\ pc' = "copy")]_vars

\* The output existed and was truncated, in overwrite mode, and the copy
\* then failed.
C30_Witness ==
    /\ outPath = "truncated"
    /\ overwriteOutputIfExists
    /\ pc = "exited"
    /\ exitCode = exitCodeTechnicalError
    /\ VolumeValid(volume)

---------------------------------------------------------------------------
(* Claims about bootsect.Parse *)

\* Exact integers for the sizes of a boot sector: words of 24 bytes, wide
\* enough for 2^128 clusters of 0xFFFF bytes taken 127 times.
ExactLen == 8 + 8 + 8

\* 2^k, exactly
ExactPow2(k) ==
    [i \in 1..ExactLen |-> IF i = (k \div 8) + 1 THEN 2 ^ (k % 8) ELSE 0]

\* The quantity a size byte stands for, exactly: 2^(-B) for a negative B,
\* else B units.
ExactQuantity(b, unit) ==
    IF Int8(b) < 0 THEN ExactPow2(-Int8(b)) ELSE Times(unit, Int8(b))

ExactOne == IntToWord(1, ExactLen)

ExactSectorsPerCluster(data) == ExactQuantity(data[14], ExactOne)

ExactBytesPerCluster(data) ==
    Times(ExactSectorsPerCluster(data), Uint16(Slice(data, 11, 2)))

\* C19: Parse fails only on an input shorter than 80 bytes, whatever the
\* OEM id; the sectors per cluster are the byte at 0x0D, or 2^(-B) when it
\* is a negative B; bytes per cluster are bytes per sector times sectors
\* per cluster; the record-segment and index-buffer sizes are B times the
\* bytes per cluster for a size byte B >= 0 and exactly 2^(-B) bytes for a
\* B < 0, for every B from -128 to 127.
C19_SizesDecoded ==
    call = "Parse" =>
        /\ dErr # "nil" <=> Len(inBytes) < 80
        /\ dErr = "nil" =>
              /\ dOut.OemId = Slice(inBytes, 3, 8)
              /\ SignExtend(dOut.BytesPerSector, ExactLen)
                    = IntToWord(Uint16(Slice(inBytes, 11, 2)), ExactLen)
              /\ SignExtend(dOut.SectorsPerCluster, ExactLen)
                    = ExactSectorsPerCluster(inBytes)
              /\ SignExtend(dOut.FileRecordSegmentSizeInBytes, ExactLen)
                    = ExactQuantity(inBytes[65], ExactBytesPerCluster(inBytes))
              /\ SignExtend(dOut.IndexBufferSizeInBytes, ExactLen)
                    = ExactQuantity(inBytes[69], ExactBytesPerCluster(inBytes))

---------------------------------------------------------------------------
(* Claims about utf16.DecodeString *)

\* C20: DecodeString fails (a panic or an error) on every input whose
\* length is not a multiple of 2, instead of returning a string decoded
\* from a part of the input.
C20_OddLengthFails ==
    (call = "DecodeString" /\ Len(inBytes) % 2 = 1) => dErr # "nil"

---------------------------------------------------------------------------
(* Claims about the walks of the stream decoders *)

\* The walk an attribute stream describes: its elements, each as long as
\* its record length says, up to the terminator or the end of b, and
\* whether the walk breaks off (fewer than 4 bytes left, fewer than 8 for
\* an element that is no terminator, a record length of 0 or beyond what
\* is left).
RECURSIVE AttributeRecords(_)
AttributeRecords(b) ==
    IF Len(b) = 0 THEN [err |-> "nil", records |-> <<>>]
    ELSE IF Len(b) < 4 THEN [err |-> "MalformedAttribute", records |-> <<>>]
    ELSE IF Slice(b, 0, 4) = <<255, 255, 255, 255>>
    THEN [err |-> "nil", records |-> <<>>]
    ELSE IF Len(b) < 8 THEN [err |-> "MalformedAttribute", records |-> <<>>]
    ELSE LET recordLength == IntOf(Slice(b, 4, 4)) IN
         IF recordLength = 0 \/ recordLength > Len(b)
         THEN [err |-> "MalformedAttribute", records |-> <<>>]
         ELSE LET rest == AttributeRecords(SubSeq(b, recordLength + 1, Len(b)))
              IN  [err |-> rest.err,
                   records |-> <<SubSeq(b, 1, recordLength)>> \o rest.records]

\* Each element of the walk parsed from its own bytes and no other.
AttributesOfRecords(b) ==
    LET records == AttributeRecords(b).records
    IN  [i \in 1..Len(records) |-> ParseAttribute(records[i])]

\* C22: ParseAttributes emits the attributes of the walk in order, each
\* parsed from exactly its recordLength bytes; it stops without error at
\* the terminator (not emitted, nothing after it examined) or at the end
\* of the buffer, and fails when the walk breaks off.
C22_AttributesWalk ==
    call = "ParseAttributes" =>
        LET walk == AttributeRecords(inBytes)
            each == AttributesOfRecords(inBytes)
            AllParse == \A i \in 1..Len(each) : each[i].err = "nil"
        IN  /\ walk.err # "nil" => dErr # "nil"
            /\ (walk.err = "nil" /\ AllParse) => dErr = "nil"
            /\ dErr = "nil" =>
                  /\ walk.err = "nil"
                  /\ AllParse
                  /\ dOut = [i \in 1..Len(each) |-> each[i].attribute]

\* Whether the walk over the runs of b meets a run whose header announces
\* more bytes than are left, before a header 0 or the end of b.
RECURSIVE RunWalkBreaks(_)
RunWalkBreaks(b) ==
    IF b = <<>> THEN FALSE
    ELSE IF b[1] = 0 THEN FALSE
    ELSE LET size == 1 + (b[1] % 16) + (b[1] \div 16)
         IN  IF size > Len(b) THEN TRUE
             ELSE RunWalkBreaks(SubSeq(b, size + 1, Len(b)))

\* C23: ParseDataRuns emits one run per header met, advancing by exactly
\* 1 + lengthLen + offsetLen; a header 0 ends the walk without error
\* whatever follows, and so does the end of the input; a run that
\* announces more bytes than are left is an error; a run without offset
\* bytes has OffsetCluster 0 and one without length bytes has
\* LengthInClusters 0; offsets of up to 8 bytes are the field's bytes,
\* sign-extended.
C23_DataRunsWalk ==
    call = "ParseDataRuns" =>
        /\ dErr # "nil" <=> RunWalkBreaks(inBytes)
        /\ dErr = "nil" =>
              LET fields == RunFields(inBytes) IN
              /\ Len(dRuns) = Len(fields)
              /\ \A i \in 1..Len(fields) :
                    /\ fields[i].offsetBytes = <<>>
                          => dRuns[i].OffsetCluster = Fill(8, 0)
                    /\ fields[i].lengthBytes = <<>>
                          => dRuns[i].LengthInClusters = Fill(8, 0)
                    /\ Len(fields[i].offsetBytes) \in 1..8
                          => dRuns[i].OffsetCluster
                                = SignExtend(fields[i].offsetBytes, 8)

\* A walk over two runs, the first without offset bytes and the second
\* without length bytes, ended by a header 0 that bytes follow.
C23_Witness ==
    /\ call = "ParseDataRuns"
    /\ dErr = "nil"
    /\ Len(dRuns) = 2
    /\ inBytes = <<1, 5, 16, 0, 0, 0, 200, 0, 0, 0>>

---------------------------------------------------------------------------
(* Claims about the entry walks *)

\* The bytes the first n index entries of b take up, by their entryLength
\* fields (at 0x08).
RECURSIVE EntriesLength(_, _)
EntriesLength(b, n) ==
    IF n = 0 THEN 0
    ELSE LET entryLength == b[9] + 256 * b[10]
         IN  entryLength + EntriesLength(SubSeq(b, entryLength + 1, Len(b)), n - 1)

\* Bit 1 of the flags of an index entry
LastInNode(entry) == (entry.Flags[1] \div 2) % 2 = 1

\* C24: ParseIndexEntries stops after the first entry whose last-in-node
\* flag is set: the entry is in the result, with an empty FileName, no
\* entry comes after it, the call has returned without error and what
\* follows the entry in the input was left alone, whatever it holds.
C24_StopsAfterLastInNode ==
    (walkCall = "ParseIndexEntries" /\ walkEntries # <<>>) =>
        LET n == Len(walkEntries) IN
        /\ \A i \in 1..(n - 1) : ~LastInNode(walkEntries[i])
        /\ LastInNode(walkEntries[n]) =>
              /\ walkEntries[n].FileName = EmptyFileName
              /\ walkPc = "returned"
              /\ walkErr = "nil"
              /\ walkB = SubSeq(walkIn, EntriesLength(walkIn, n) + 1, Len(walkIn))

\* A named entry, then a last-in-node entry with content that is no
\* $FILE_NAME, then an entry of length 0 that was not looked at.
C24_Witness ==
    /\ walkCall = "ParseIndexEntries"
    /\ walkPc = "returned"
    /\ walkErr = "nil"
    /\ Len(walkEntries) = 2
    /\ walkEntries[1].FileName.Name = <<116>>
    /\ LastInNode(walkEntries[2])
    /\ walkEntries[2].FileName = EmptyFileName
    /\ Len(walkIn) = 88 + 24 + 16
    /\ Len(walkB) = 16
    /\ walkB[9] = 0 /\ walkB[10] = 0

\* C28: the loops of ParseAttributeList and ParseIndexEntries end on every
\* input: an iteration that does not return leaves strictly less of the
\* input than it found, also when the entry's length field is 0.
C28_EveryIterationShortens ==
    [][(walkPc = "loop" /\ walkPc' = "loop") => Len(walkB') < Len(walkB)]_vars

---------------------------------------------------------------------------
(* Claims about the lengths of the fragments *)

\* C29: the fragments DataRunsToFragments makes of the runs ParseDataRuns
\* returned, for a positive bytesPerCluster, all have Length >= 0: the sign
\* bit of the int64 is clear.
C29_FragmentLengthsNonNegative ==
    (call = "DataRunsToFragments" /\ inBytes # <<>> /\ inBpc > 0) =>
        \A i \in 1..Len(dFrags) : dFrags[i].Length[8] < 128

====
